---- MODULE Spec2Model ----
(***************************************************************************)
(* Model of app.py: the response-to-table parser                           *)
(* (TikTokAnalyzer.create_analysis_table, find_category, clean_text) and   *)
(* the request pipeline (TikTokAnalyzer.analyze_video and its downloads).  *)
(*                                                                         *)
(* A Python str is modelled as a sequence of one-character strings, so     *)
(* that splitting, searching, case folding and the regular expressions of  *)
(* the source are computed character by character.                         *)
(***************************************************************************)
EXTENDS Integers, Sequences, FiniteSets, TLC

(***************************************************************************)
(* Bounds of the model                                                     *)
(***************************************************************************)
\* number of lines of a response text given to the parser
MaxLines == 2

(***************************************************************************)
(* Python str primitives                                                   *)
(***************************************************************************)
UpperCase ==
  <<"A","B","C","D","E","F","G","H","I","J","K","L","M","N","O","P","Q","R","S","T","U","V","W","X","Y","Z">>
LowerCase ==
  <<"a","b","c","d","e","f","g","h","i","j","k","l","m","n","o","p","q","r","s","t","u","v","w","x","y","z">>
Letters == {UpperCase[i] : i \in 1..26} \cup {LowerCase[i] : i \in 1..26}
\* characters str.split() and str.strip() treat as white space
Whitespace == {" ", "\n", "\t", "\r"}
\* Python's None
None == "None"

ToLower == [c \in {UpperCase[i] : i \in 1..26} |->
              LowerCase[CHOOSE i \in 1..26 : UpperCase[i] = c]]
lower_char(c) == IF c \in DOMAIN ToLower THEN ToLower[c] ELSE c
\* str.lower()
lower(s) == [i \in 1..Len(s) |-> lower_char(s[i])]

MinOf(S) == CHOOSE x \in S : \A y \in S : x <= y
MaxOf(S) == CHOOSE x \in S : \A y \in S : y <= x
Drop(s, n) == SubSeq(s, n + 1, Len(s))
\* str.startswith(p)
startswith(s, p) == Len(p) <= Len(s) /\ SubSeq(s, 1, Len(p)) = p
\* p in s
contains(s, p) ==
  \E i \in 1..(Len(s) - Len(p) + 1) : SubSeq(s, i, i + Len(p) - 1) = p
\* index of the first occurrence of character c in s, 0 when there is none
find(s, c) ==
  LET at == {i \in 1..Len(s) : s[i] = c}
  IN  IF at = {} THEN 0 ELSE MinOf(at)
\* str.strip()
strip(s) ==
  LET keep == {i \in 1..Len(s) : s[i] \notin Whitespace}
  IN  IF keep = {} THEN <<>> ELSE SubSeq(s, MinOf(keep), MaxOf(keep))
\* index of the first occurrence of the str p in s, 0 when there is none
find_str(s, p) ==
  LET at == {i \in 1..(Len(s) - Len(p) + 1) : SubSeq(s, i, i + Len(p) - 1) = p}
  IN  IF at = {} THEN 0 ELSE MinOf(at)
\* str.replace(old, ''): the non-overlapping occurrences, left to right
RECURSIVE replace(_, _)
replace(s, old) ==
  LET i == find_str(s, old)
  IN  IF i = 0 THEN s
      ELSE SubSeq(s, 1, i - 1) \o replace(Drop(s, i + Len(old) - 1), old)
\* str.split(c) for a one-character separator: empty pieces are kept
RECURSIVE split(_, _)
split(s, c) ==
  LET i == find(s, c)
  IN  IF i = 0 THEN <<s>> ELSE <<SubSeq(s, 1, i - 1)>> \o split(Drop(s, i), c)
\* str.split(): pieces between runs of white space, no empty piece
RECURSIVE split_ws(_)
split_ws(s) ==
  LET keep == {i \in 1..Len(s) : s[i] \notin Whitespace}
  IN  IF keep = {} THEN <<>>
      ELSE LET b  == MinOf(keep)
               ws == {i \in b..Len(s) : s[i] \in Whitespace}
               e  == IF ws = {} THEN Len(s) + 1 ELSE MinOf(ws)
           IN  <<SubSeq(s, b, e - 1)>> \o split_ws(Drop(s, e - 1))
\* sep.join(parts)
RECURSIVE join(_, _)
join(parts, sep) ==
  IF parts = <<>> THEN <<>>
  ELSE IF Len(parts) = 1 THEN parts[1]
  ELSE parts[1] \o sep \o join(Tail(parts), sep)
\* filter(None, parts): the non-empty entries
filter_none(parts) == SelectSeq(parts, LAMBDA p : p # <<>>)

(***************************************************************************)
(* create_analysis_table: the category list and the heading map            *)
(***************************************************************************)
categories ==
  << "Video Summary",
     "Content Theme",
     "Content Style",
     "Creator Presence",
     "Key Video Elements",
     "On-Screen Text/Graphics",
     "Spoken Words",
     "Technical Elements",
     "Auditory Elements",
     "Language",
     "Sentiment/Tone/Vibe",
     "Video Length",
     "Brand Safety",
     "Brands Featured",
     "Target Audience",
     "Location" >>

CategoryText ==
  << <<"V","i","d","e","o"," ","S","u","m","m","a","r","y">>,
     <<"C","o","n","t","e","n","t"," ","T","h","e","m","e">>,
     <<"C","o","n","t","e","n","t"," ","S","t","y","l","e">>,
     <<"C","r","e","a","t","o","r"," ","P","r","e","s","e","n","c","e">>,
     <<"K","e","y"," ","V","i","d","e","o"," ","E","l","e","m","e","n","t","s">>,
     <<"O","n","-","S","c","r","e","e","n"," ","T","e","x","t","/","G","r","a","p","h","i","c","s">>,
     <<"S","p","o","k","e","n"," ","W","o","r","d","s">>,
     <<"T","e","c","h","n","i","c","a","l"," ","E","l","e","m","e","n","t","s">>,
     <<"A","u","d","i","t","o","r","y"," ","E","l","e","m","e","n","t","s">>,
     <<"L","a","n","g","u","a","g","e">>,
     <<"S","e","n","t","i","m","e","n","t","/","T","o","n","e","/","V","i","b","e">>,
     <<"V","i","d","e","o"," ","L","e","n","g","t","h">>,
     <<"B","r","a","n","d"," ","S","a","f","e","t","y">>,
     <<"B","r","a","n","d","s"," ","F","e","a","t","u","r","e","d">>,
     <<"T","a","r","g","e","t"," ","A","u","d","i","e","n","c","e">>,
     <<"L","o","c","a","t","i","o","n">> >>

category_mapping ==
  << [key |-> <<"b","r","i","e","f"," ","v","i","d","e","o"," ","s","u","m","m","a","r","y">>,
      category |-> "Video Summary"],
     [key |-> <<"c","o","n","t","e","n","t"," ","t","h","e","m","e">>,
      category |-> "Content Theme"],
     [key |-> <<"c","o","n","t","e","n","t"," ","s","t","y","l","e">>,
      category |-> "Content Style"],
     [key |-> <<"c","r","e","a","t","o","r"," ","p","r","e","s","e","n","c","e">>,
      category |-> "Creator Presence"],
     [key |-> <<"k","e","y"," ","v","i","d","e","o"," ","e","l","e","m","e","n","t","s">>,
      category |-> "Key Video Elements"],
     [key |-> <<"o","n","-","s","c","r","e","e","n"," ","t","e","x","t","/","g","r","a","p","h","i","c","s">>,
      category |-> "On-Screen Text/Graphics"],
     [key |-> <<"s","p","o","k","e","n"," ","w","o","r","d","s">>,
      category |-> "Spoken Words"],
     [key |-> <<"t","e","c","h","n","i","c","a","l"," ","e","l","e","m","e","n","t","s">>,
      category |-> "Technical Elements"],
     [key |-> <<"a","u","d","i","t","o","r","y"," ","e","l","e","m","e","n","t","s">>,
      category |-> "Auditory Elements"],
     [key |-> <<"l","a","n","g","u","a","g","e">>,
      category |-> "Language"],
     [key |-> <<"s","e","n","t","i","m","e","n","t","/","t","o","n","e","/","v","i","b","e">>,
      category |-> "Sentiment/Tone/Vibe"],
     [key |-> <<"v","i","d","e","o"," ","l","e","n","g","t","h">>,
      category |-> "Video Length"],
     [key |-> <<"b","r","a","n","d"," ","s","a","f","e","t","y">>,
      category |-> "Brand Safety"],
     [key |-> <<"b","r","a","n","d","s"," ","f","e","a","t","u","r","e","d">>,
      category |-> "Brands Featured"],
     [key |-> <<"t","a","r","g","e","t"," ","a","u","d","i","e","n","c","e">>,
      category |-> "Target Audience"],
     [key |-> <<"l","o","c","a","t","i","o","n">>,
      category |-> "Location"] >>


(***************************************************************************)
(* The regular expressions of the parser                                   *)
(***************************************************************************)
\* the bullet markers of  r'^\s*[\*\-•]\s*'  ("bullet" stands for U+2022)
BulletChars == {"*", "-", "bullet"}
\* the tokens  i[vx] | v | x | i{1,3}  of roman_pattern
RomanTokens ==
  { <<"i","v">>, <<"i","x">>, <<"v">>, <<"x">>,
    <<"i">>, <<"i","i">>, <<"i","i","i">> }
\* re.match(r'^(?:i[vx]|v|x|i{1,3})\)', s)
roman_pattern(s) == \E t \in RomanTokens : startswith(s, t \o <<")">>)

\* re.sub(r'^\s*[\*\-•]\s*', '', s)
sub_bullet(s) ==
  LET keep == {i \in 1..Len(s) : s[i] \notin Whitespace}
      b    == IF keep = {} THEN 0 ELSE MinOf(keep)
  IN  IF b # 0 /\ s[b] \in BulletChars
        THEN LET rest == {i \in (b + 1)..Len(s) : s[i] \notin Whitespace}
             IN  IF rest = {} THEN <<>> ELSE Drop(s, MinOf(rest) - 1)
        ELSE s

\* re.sub(r'^[ivxIVX]+\)', '', s)
sub_roman_marker(s) ==
  LET cls  == {"i", "v", "x", "I", "V", "X"}
      stop == {i \in 1..Len(s) : s[i] \notin cls}
      n    == IF stop = {} THEN Len(s) ELSE MinOf(stop) - 1
  IN  IF n >= 1 /\ n < Len(s) /\ s[n + 1] = ")" THEN Drop(s, n + 1) ELSE s

\* re.sub(r'^[a-zA-Z]\)', '', s)
sub_letter_marker(s) ==
  IF Len(s) >= 2 /\ s[1] \in Letters /\ s[2] = ")" THEN Drop(s, 2) ELSE s

\* the places where r'\[.*?\]' matches: a '[' with a ']' after it and no
\* newline in between ('.' does not match a newline)
aside_starts(s) ==
  {i \in 1..Len(s) :
     /\ s[i] = "["
     /\ \E j \in (i + 1)..Len(s) :
          s[j] = "]" /\ \A k \in (i + 1)..(j - 1) : s[k] # "\n"}

\* re.sub(r'\[.*?\]', '', s): leftmost match first, up to the nearest ']'
RECURSIVE sub_brackets(_)
sub_brackets(s) ==
  IF aside_starts(s) = {} THEN s
  ELSE LET i == MinOf(aside_starts(s))
           j == MinOf({j \in (i + 1)..Len(s) : s[j] = "]"})
       IN  SubSeq(s, 1, i - 1) \o sub_brackets(Drop(s, j))

(***************************************************************************)
(* TikTokAnalyzer.clean_text                                               *)
(***************************************************************************)
\* re.sub with count=1
sub_first_bracket(s) ==
  IF aside_starts(s) = {} THEN s
  ELSE LET i == MinOf(aside_starts(s))
           j == MinOf({j \in (i + 1)..Len(s) : s[j] = "]"})
       IN  SubSeq(s, 1, i - 1) \o Drop(s, j)

clean_text_first_aside(text) ==
  IF text = <<>> THEN <<>>
  ELSE strip(join(split_ws(sub_first_bracket(replace(text, <<"*">>))), <<" ">>))

clean_text_no_brackets(text) ==
  IF text = <<>> THEN <<>>
  ELSE strip(join(split_ws(replace(text, <<"*">>)), <<" ">>))

\* lines 851-856
clean_text(text) ==
  IF text = <<>> THEN <<>>
  ELSE strip(join(split_ws(sub_brackets(replace(text, <<"*">>))), <<" ">>))

(***************************************************************************)
(* find_category, the closure of create_analysis_table.  The result is     *)
(* (category, initial_content); raised tells that an index of a split was  *)
(* out of range (IndexError), which leaves create_analysis_table.          *)
(***************************************************************************)
\* s.split(c, 1)[1]: the index is out of range when c is not in s
split1_after(s, c) ==
  [raised |-> find(s, c) = 0, value |-> Drop(s, find(s, c))]

\* lines 920-922 with split(..)[0] in place of split(..)[1]: the numeral is kept
strip_roman_keep_token(line) ==
  IF roman_pattern(lower(line))
    THEN [raised |-> FALSE,
          line   |-> strip(SubSeq(line, 1, find(line, ")") - 1))]
    ELSE [raised |-> FALSE, line |-> line]

\* lines 920-922
strip_roman(line) ==
  IF roman_pattern(lower(line))
    THEN [raised |-> split1_after(line, ")").raised,
          line   |-> strip(split1_after(line, ")").value)]
    ELSE [raised |-> FALSE, line |-> line]

\* lines 925-926
strip_letter(line) ==
  IF startswith(line, <<"a", ")">>) \/ startswith(line, <<"b", ")">>)
    THEN [raised |-> split1_after(line, ")").raised,
          line   |-> strip(split1_after(line, ")").value)]
    ELSE [raised |-> FALSE, line |-> line]

\* line 931 where the line is not split at its ':'
initial_content_whole_line(line) == [raised |-> FALSE, content |-> line]

\* line 931 without the test "if ':' in line"
initial_content_unguarded(line) ==
  [raised  |-> split1_after(line, ":").raised,
   content |-> strip(split1_after(line, ":").value)]

\* line 931: line.split(':', 1)[1].strip() if ':' in line else ''
initial_content_of(line) ==
  IF find(line, ":") # 0
    THEN [raised  |-> split1_after(line, ":").raised,
          content |-> strip(split1_after(line, ":").value)]
    ELSE [raised |-> FALSE, content |-> <<>>]

\* line 930 where the key is looked for at the start of the line only
key_at_start(low, key) == startswith(low, key)

\* line 930: key in line.lower()
key_in_line(low, key) == contains(low, key)

\* lines 929-932 where the key that occurs leftmost in the line is taken
match_category_leftmost(line) ==
  LET low  == lower(line)
      hits == {k \in 1..Len(category_mapping) :
                 key_in_line(low, category_mapping[k].key)}
      at(k) == find_str(low, category_mapping[k].key)
      left == {k \in hits : \A j \in hits : at(k) <= at(j)}
  IN  IF hits = {}
        THEN [raised |-> FALSE, category |-> None, content |-> <<>>]
        ELSE [raised   |-> initial_content_of(line).raised,
              category |-> category_mapping[MinOf(left)].category,
              content  |-> initial_content_of(line).content]

\* lines 929-932: the first key of category_mapping, in insertion order
match_category(line) ==
  LET low  == lower(line)
      hits == {k \in 1..Len(category_mapping) :
                 key_in_line(low, category_mapping[k].key)}
  IN  IF hits = {}
        THEN [raised |-> FALSE, category |-> None, content |-> <<>>]
        ELSE [raised   |-> initial_content_of(line).raised,
              category |-> category_mapping[MinOf(hits)].category,
              content  |-> initial_content_of(line).content]

find_category(line) ==
  LET r == strip_roman(line)
      l == strip_letter(r.line)
      m == match_category(l.line)
  IN  [raised   |-> r.raised \/ l.raised \/ m.raised,
       category |-> m.category,
       content  |-> m.content]

(***************************************************************************)
(* The per-field cleanup of create_analysis_table, lines 964-971           *)
(***************************************************************************)
\* lines 966-967 left out
remove_labels_skipped(analysis, k) == analysis

\* lines 966-967: for cat in categories: analysis.replace(f"{cat}:", "")
RECURSIVE remove_labels(_, _)
remove_labels(analysis, k) ==
  IF k > Len(CategoryText) THEN analysis
  ELSE remove_labels(replace(analysis, CategoryText[k] \o <<":">>), k + 1)

cleanup(analysis) ==
  clean_text(sub_letter_marker(sub_roman_marker(remove_labels(analysis, 1))))

(***************************************************************************)
(* The response texts the parser is run on: every text of at most MaxLines *)
(* lines drawn from LineSet, the empty text and None.                      *)
(***************************************************************************)
\* "Content Theme: Comedy (80%), Drama (20%)"
L_theme ==
  <<"C","o","n","t","e","n","t"," ","T","h","e","m","e",":"," ","C","o","m","e","d","y"," ","(","8","0","%",")",","," ","D","r","a","m","a"," ","(","2","0","%",")">>
\* "Content Style: Vlog"
L_style ==
  <<"C","o","n","t","e","n","t"," ","S","t","y","l","e",":"," ","V","l","o","g">>
\* "ii) Content Style: Tutorial"
L_roman ==
  <<"i","i",")"," ","C","o","n","t","e","n","t"," ","S","t","y","l","e",":"," ","T","u","t","o","r","i","a","l">>
\* "c) Content Style: Tutorial"
L_letter ==
  <<"c",")"," ","C","o","n","t","e","n","t"," ","S","t","y","l","e",":"," ","T","u","t","o","r","i","a","l">>
\* "XV) LOCATION: home"
L_upper ==
  <<"X","V",")"," ","L","O","C","A","T","I","O","N",":"," ","h","o","m","e">>
\* "a) Brief video summary: a cat"
L_brief ==
  <<"a",")"," ","B","r","i","e","f"," ","v","i","d","e","o"," ","s","u","m","m","a","r","y",":"," ","a"," ","c","a","t">>
\* "Brand Safety: none"
L_safety ==
  <<"B","r","a","n","d"," ","S","a","f","e","t","y",":"," ","n","o","n","e">>
\* "- no concerns noted"
L_dash ==
  <<"-"," ","n","o"," ","c","o","n","c","e","r","n","s"," ","n","o","t","e","d">>
\* "Language: English [choose one]"
L_aside ==
  <<"L","a","n","g","u","a","g","e",":"," ","E","n","g","l","i","s","h"," ","[","c","h","o","o","s","e"," ","o","n","e","]">>
\* "**Lang*uage**: en"
L_stars ==
  <<"*","*","L","a","n","g","*","u","a","g","e","*","*",":"," ","e","n">>
\* "shot on location"
L_mid ==
  <<"s","h","o","t"," ","o","n"," ","l","o","c","a","t","i","o","n">>
\* "Spoken Words: body language"
L_two ==
  <<"S","p","o","k","e","n"," ","W","o","r","d","s",":"," ","b","o","d","y"," ","l","a","n","g","u","a","g","e">>
\* "Language"
L_bare ==
  <<"L","a","n","g","u","a","g","e">>
\* "note: the Location is x"
L_early ==
  <<"n","o","t","e",":"," ","t","h","e"," ","L","o","c","a","t","i","o","n"," ","i","s"," ","x">>
\* "Content Theme: Video Summary: fun"
L_label ==
  <<"C","o","n","t","e","n","t"," ","T","h","e","m","e",":"," ","V","i","d","e","o"," ","S","u","m","m","a","r","y",":"," ","f","u","n">>
\* " "
L_blank ==
  <<" ">>
\* "[see"
L_open ==
  <<"[","s","e","e">>
\* "below] ok"
L_close ==
  <<"b","e","l","o","w","]"," ","o","k">>
\* "Language: ii) a) x"
L_nested ==
  <<"L","a","n","g","u","a","g","e",":"," ","i","i",")"," ","a",")"," ","x">>
\* "-"
L_hyphen ==
  <<"-">>
\* "Language:"
L_empty ==
  <<"L","a","n","g","u","a","g","e",":">>
\* "c) foo"
L_body_c ==
  <<"c",")"," ","f","o","o">>
\* "vi) foo"
L_body_vi ==
  <<"v","i",")"," ","f","o","o">>
\* "two  words"
L_spaces ==
  <<"t","w","o"," "," ","w","o","r","d","s">>
\* "brands featured, brand safety: y"
L_order ==
  <<"b","r","a","n","d","s"," ","f","e","a","t","u","r","e","d",","," ","b","r","a","n","d"," ","s","a","f","e","t","y",":"," ","y">>
\* "(bullet) bar", the line starting with U+2022
L_bullet ==
  <<"bullet"," ","b","a","r">>
\* "Location: sign language"
L_clash ==
  <<"L","o","c","a","t","i","o","n",":"," ","s","i","g","n"," ","l","a","n","g","u","a","g","e">>
\* "Language: Location[set]: x"
L_guard ==
  <<"L","a","n","g","u","a","g","e",":"," ","L","o","c","a","t","i","o","n","[","s","e","t","]",":"," ","x">>
LineSet ==
  { L_theme, L_style, L_roman, L_letter, L_upper,
    L_brief, L_safety, L_dash, L_aside, L_stars,
    L_mid, L_two, L_bare, L_early, L_label,
    L_blank, L_open, L_close, L_nested, L_hyphen,
    L_empty, L_body_c, L_body_vi, L_spaces, L_order,
    L_bullet, L_clash, L_guard }


Texts ==
  {<<>>} \cup
  { join(ls, <<"\n">>) : ls \in UNION {[1..n -> LineSet] : n \in 1..MaxLines} }
\* the argument of create_analysis_table: None or a str
TextArgs ==
  {[is_none |-> TRUE, str |-> <<>>]} \cup
  {[is_none |-> FALSE, str |-> t] : t \in Texts}

(***************************************************************************)
(* create_analysis_table as a function of its argument                     *)
(***************************************************************************)
\* Python's truth value of the argument: "if not text"
only_none(t) == t.is_none

\* line 860
falsy(t) == t.is_none \/ t.str = <<>>

new_frame_short ==
  [i \in 1..(Len(categories) - 1) |->
     [Category |-> categories[i], Analysis |-> <<>>]]

\* lines 882-887: one row per category, Analysis ''
new_frame ==
  [i \in 1..Len(categories) |-> [Category |-> categories[i], Analysis |-> <<>>]]

set_analysis_all(frame, category, content) ==
  [i \in 1..Len(frame) |-> [frame[i] EXCEPT !.Analysis = content]]

\* df.loc[df['Category'] == category, 'Analysis'] = content
set_analysis(frame, category, content) ==
  [i \in 1..Len(frame) |->
     IF frame[i].Category = category
       THEN [frame[i] EXCEPT !.Analysis = content]
       ELSE frame[i]]

flush_comma(frame, category, buffer) ==
  IF category # None /\ buffer # <<>>
    THEN set_analysis(frame, category, join(filter_none(buffer), <<",">>))
    ELSE frame

\* a flush that adds to what the cell holds instead of replacing it
flush_append(frame, category, buffer) ==
  IF category # None /\ buffer # <<>>
    THEN [i \in 1..Len(frame) |->
            IF frame[i].Category = category
              THEN [frame[i] EXCEPT !.Analysis =
                      IF @ = <<>>
                        THEN join(filter_none(buffer), <<",", " ">>)
                        ELSE @ \o <<",", " ">>
                               \o join(filter_none(buffer), <<",", " ">>)]
              ELSE frame[i]]
    ELSE frame

\* lines 943-945 and 957-959: save the buffer of the current category
flush(frame, category, buffer) ==
  IF category # None /\ buffer # <<>>
    THEN set_analysis(frame, category, join(filter_none(buffer), <<",", " ">>))
    ELSE frame

\* lines 890-894
split_lines(t) == split(replace(replace(t, <<"*", "*">>), <<"*">>), "\n")

\* the locals of the for loop before the first line, lines 895-896
loop_start ==
  [current_category |-> None, content_buffer |-> <<>>,
   df |-> new_frame, raised |-> FALSE]

\* a loop body that keeps the buffered lines when a new category starts
process_line_keep_buffer(st, raw) ==
  LET line == strip(raw)
      fc   == find_category(line)
  IN  IF line = <<>> THEN st
      ELSE IF fc.raised THEN [st EXCEPT !.raised = TRUE]
      ELSE IF fc.category # None
        THEN [st EXCEPT
                !.df = flush(st.df, st.current_category, st.content_buffer),
                !.current_category = fc.category,
                !.content_buffer =
                   IF fc.content # <<>>
                     THEN Append(st.content_buffer, fc.content)
                     ELSE st.content_buffer]
      ELSE IF st.current_category # None
        THEN [st EXCEPT
                !.content_buffer =
                   IF sub_bullet(line) # <<>>
                     THEN Append(st.content_buffer, sub_bullet(line))
                     ELSE st.content_buffer]
      ELSE st

\* lines 935-954: the body of the for loop on one line
process_line(st, raw) ==
  LET line == strip(raw)
      fc   == find_category(line)
  IN  IF line = <<>> THEN st
      ELSE IF fc.raised THEN [st EXCEPT !.raised = TRUE]
      ELSE IF fc.category # None
        THEN [st EXCEPT
                !.df = flush(st.df, st.current_category, st.content_buffer),
                !.current_category = fc.category,
                !.content_buffer =
                   IF fc.content # <<>> THEN <<fc.content>> ELSE <<>>]
      ELSE IF st.current_category # None
        THEN [st EXCEPT
                !.content_buffer =
                   IF sub_bullet(line) # <<>>
                     THEN Append(st.content_buffer, sub_bullet(line))
                     ELSE st.content_buffer]
      ELSE st

\* lines 962-972
clean_column(frame) ==
  [i \in 1..Len(frame) |-> [frame[i] EXCEPT !.Analysis = cleanup(@)]]

RECURSIVE run_loop(_, _, _)
run_loop(st, ls, k) ==
  IF k > Len(ls) \/ st.raised THEN st
  ELSE run_loop(process_line(st, ls[k]), ls, k + 1)

\* the value create_analysis_table(t) returns; raised when it does not return
create_analysis_table(t) ==
  IF falsy(t) THEN [raised |-> FALSE, df |-> <<>>]
  ELSE LET st == run_loop(loop_start, split_lines(t.str), 1)
       IN  [raised |-> st.raised,
            df     |-> IF st.raised THEN <<>>
                       ELSE clean_column(flush(st.df, st.current_category,
                                               st.content_buffer))]

(***************************************************************************)
(* State                                                                   *)
(***************************************************************************)
VARIABLES
  text,              \* create_analysis_table: the argument
  pc,                \* create_analysis_table: position in the function
  lines,             \* text.split('\n') after the '*' removal
  line_no,           \* index of the line the for loop is at
  current_category,  \* None or a category name
  content_buffer,    \* list of str
  df,                \* the DataFrame: a sequence of rows, <<>> when empty
  raised,            \* an exception left create_analysis_table
  heading_line,      \* a heading line L given to the parser on its own
  list_prefix,       \* a list prefix P put in front of it
  table_plain,       \* create_analysis_table(L), None before the call
  table_prefixed,    \* create_analysis_table(P + ' ' + L), None before the call
  cleanup_fn,        \* the cleanup function applied repeatedly
  cleanup_in,        \* the str it is first applied to
  cleanup_out,       \* the results of its successive applications
  video_url,         \* analyze_video: the URL the user entered
  req_pc,            \* analyze_video: position in the coroutine
  processed_url,     \* result of convert_to_embed_url
  url_type,          \* 'tiktok', 'instagram', 'direct_mp4' or 'unknown'
  bucket,            \* try_s3_download: index of the bucket of the for loop
  tmp_name,          \* temp_file.name of the download that is under way
  next_tmp,          \* the name the next NamedTemporaryFile gets
  temp_files,        \* the temporary files that exist on disk
  video_path,        \* None or the name of the downloaded file
  file_state,        \* video_file.state.name of the uploaded file
  polls,             \* number of genai.get_file calls made
  result,            \* what analyze_video returned
  errors,            \* the st.error messages shown
  target_progress,   \* progress_mgr.target_progress
  log,               \* the network and model calls made, in order
  main_pc,           \* main_async: position in the coroutine
  prompt_style,      \* model_config.prompt_style
  is_running,        \* progress_mgr.is_running
  current_progress,  \* progress_mgr.current_progress
  animation_task,    \* "none", "pending" or "done"
  session_results,   \* st.session_state.analysis_results, <<>> when unset
  table_shown,       \* the frame given to st.table, <<>> when none
  sheet_rows,        \* the rows appended to the worksheet
  prompt,            \* the prompt template a response answers
  heading_no,        \* index of one of its 16 headings
  answer,            \* a response that repeats this heading
  answer_table       \* <<create_analysis_table(answer)>>, <<>> before the call

parser_vars ==
  <<text, pc, lines, line_no, current_category, content_buffer, df, raised>>
prefix_vars == <<heading_line, list_prefix, table_plain, table_prefixed>>
cleanup_vars == <<cleanup_fn, cleanup_in, cleanup_out>>
request_vars ==
  <<video_url, req_pc, processed_url, url_type, bucket, tmp_name, next_tmp,
    temp_files, video_path, file_state, polls, result, errors, target_progress,
    log>>
main_vars ==
  <<main_pc, prompt_style, is_running, current_progress, animation_task,
    session_results, table_shown, sheet_rows>>
prompt_vars == <<prompt, heading_no, answer, answer_table>>
vars ==
  <<parser_vars, prefix_vars, cleanup_vars, request_vars, main_vars,
    prompt_vars>>

\* the values of the variables of the functions that are not running
ParserIdle ==
  /\ text = [is_none |-> TRUE, str |-> <<>>]
  /\ pc = "idle"
  /\ lines = <<>>
  /\ line_no = 0
  /\ current_category = None
  /\ content_buffer = <<>>
  /\ df = <<>>
  /\ raised = FALSE
PrefixIdle ==
  /\ heading_line = <<>>
  /\ list_prefix = <<>>
  /\ table_plain = <<>>
  /\ table_prefixed = <<>>
CleanupIdle ==
  /\ cleanup_fn = None
  /\ cleanup_in = <<>>
  /\ cleanup_out = <<>>
\* None as the value analyze_video returns; a str s is [is_none |-> FALSE,
\* str |-> s], the shape create_analysis_table takes its argument in
NoResponse == [is_none |-> TRUE, str |-> <<>>]
RequestIdle ==
  /\ video_url = <<>>
  /\ req_pc = "idle"
  /\ processed_url = <<>>
  /\ url_type = None
  /\ bucket = 0
  /\ tmp_name = 0
  /\ next_tmp = 1
  /\ temp_files = {}
  /\ video_path = 0
  /\ file_state = None
  /\ polls = 0
  /\ result = NoResponse
  /\ errors = <<>>
  /\ target_progress = 0
  /\ log = <<>>
MainIdle ==
  /\ main_pc = "idle"
  /\ prompt_style = None
  /\ is_running = FALSE
  /\ current_progress = 0
  /\ animation_task = "none"
  /\ session_results = <<>>
  /\ table_shown = <<>>
  /\ sheet_rows = <<>>
PromptIdle ==
  /\ prompt = None
  /\ heading_no = 0
  /\ answer = <<>>
  /\ answer_table = <<>>

(***************************************************************************)
(* create_analysis_table, one step at a time                               *)
(***************************************************************************)
\* lines 860-896
Begin ==
  /\ pc = "start"
  /\ IF falsy(text)
       THEN /\ df' = <<>>
            /\ pc' = "done"
            /\ UNCHANGED <<lines, line_no, current_category, content_buffer>>
       ELSE /\ df' = loop_start.df
            /\ lines' = split_lines(text.str)
            /\ line_no' = 1
            /\ current_category' = loop_start.current_category
            /\ content_buffer' = loop_start.content_buffer
            /\ pc' = "loop"
  /\ UNCHANGED <<text, raised, prefix_vars, cleanup_vars, request_vars, main_vars, prompt_vars>>

\* lines 934-954: one iteration of the for loop
ProcessLine ==
  /\ pc = "loop"
  /\ line_no <= Len(lines)
  /\ LET st == process_line([current_category |-> current_category,
                             content_buffer   |-> content_buffer,
                             df               |-> df,
                             raised           |-> raised],
                            lines[line_no])
     IN  /\ current_category' = st.current_category
         /\ content_buffer' = st.content_buffer
         /\ df' = st.df
         /\ raised' = st.raised
         /\ pc' = IF st.raised THEN "done" ELSE "loop"
  /\ line_no' = line_no + 1
  /\ UNCHANGED <<text, lines, prefix_vars, cleanup_vars, request_vars, main_vars, prompt_vars>>

\* lines 957-959
FlushLast ==
  /\ pc = "loop"
  /\ line_no > Len(lines)
  /\ df' = flush(df, current_category, content_buffer)
  /\ pc' = "clean"
  /\ UNCHANGED <<text, lines, line_no, current_category, content_buffer, raised>>
  /\ UNCHANGED <<prefix_vars, cleanup_vars, request_vars, main_vars, prompt_vars>>

\* lines 962-974
CleanColumn ==
  /\ pc = "clean"
  /\ df' = clean_column(df)
  /\ pc' = "done"
  /\ UNCHANGED <<text, lines, line_no, current_category, content_buffer, raised>>
  /\ UNCHANGED <<prefix_vars, cleanup_vars, request_vars, main_vars, prompt_vars>>

ParserInit ==
  /\ text \in TextArgs
  /\ pc = "start"
  /\ lines = <<>>
  /\ line_no = 0
  /\ current_category = None
  /\ content_buffer = <<>>
  /\ df = <<>>
  /\ raised = FALSE
  /\ PrefixIdle
  /\ CleanupIdle
  /\ RequestIdle
  /\ MainIdle
  /\ PromptIdle

ParserNext == Begin \/ ProcessLine \/ FlushLast \/ CleanColumn

Spec == ParserInit /\ [][ParserNext]_vars

(***************************************************************************)
(* A heading line parsed with and without a list prefix                    *)
(***************************************************************************)
\* the numerals i .. xv
RomanNumerals ==
  { <<"i">>, <<"i","i">>, <<"i","i","i">>, <<"i","v">>, <<"v">>,
    <<"v","i">>, <<"v","i","i">>, <<"v","i","i","i">>, <<"i","x">>, <<"x">>,
    <<"x","i">>, <<"x","i","i">>, <<"x","i","i","i">>, <<"x","i","v">>,
    <<"x","v">> }
upper_char(c) ==
  IF \E i \in 1..26 : LowerCase[i] = c
    THEN UpperCase[CHOOSE i \in 1..26 : LowerCase[i] = c]
    ELSE c
\* 'i)' .. 'xv)' and 'a)' .. 'z)', in lower and in upper case
ListPrefixes ==
  LET tokens == RomanNumerals \cup {<<c>> : c \in Letters}
  IN  {t \o <<")">> : t \in tokens} \cup
      {[i \in 1..Len(t) |-> upper_char(t[i])] \o <<")">> : t \in tokens}
\* the lines of LineSet the parser takes as a heading
HeadingLines ==
  {l \in LineSet : find_category(strip(replace(l, <<"*">>))).category # None}

PrefixInit ==
  /\ heading_line \in HeadingLines
  /\ list_prefix \in ListPrefixes
  /\ table_plain = <<>>
  /\ table_prefixed = <<>>
  /\ ParserIdle
  /\ CleanupIdle
  /\ RequestIdle
  /\ MainIdle
  /\ PromptIdle

\* create_analysis_table(L)
ParsePlain ==
  /\ heading_line # <<>>
  /\ table_plain = <<>>
  /\ table_plain' =
       <<create_analysis_table([is_none |-> FALSE, str |-> heading_line])>>
  /\ UNCHANGED <<heading_line, list_prefix, table_prefixed>>
  /\ UNCHANGED <<parser_vars, cleanup_vars, request_vars, main_vars, prompt_vars>>

\* create_analysis_table(P + ' ' + L)
ParsePrefixed ==
  /\ heading_line # <<>>
  /\ table_prefixed = <<>>
  /\ table_prefixed' =
       <<create_analysis_table(
           [is_none |-> FALSE,
            str     |-> list_prefix \o <<" ">> \o heading_line])>>
  /\ UNCHANGED <<heading_line, list_prefix, table_plain>>
  /\ UNCHANGED <<parser_vars, cleanup_vars, request_vars, main_vars, prompt_vars>>

PrefixNext == ParsePlain \/ ParsePrefixed

PrefixSpec == PrefixInit /\ [][PrefixNext]_vars

(***************************************************************************)
(* The cleanup of a field applied to its own output                        *)
(***************************************************************************)
\* number of pieces a str given to the cleanup is made of
MaxPieces == 4

\* "Location:"
P_label ==
  <<"L","o","c","a","t","i","o","n",":">>
Pieces ==
  { <<"a">>, <<")">>, <<"[">>, <<"]">>, <<"*">>, <<" ">>, <<"\n">>, P_label }
CleanupInputs ==
  { join(ps, <<>>) : ps \in UNION {[1..n -> Pieces] : n \in 0..MaxPieces} }

CleanupInit ==
  /\ cleanup_fn \in {"cleanup", "clean_text"}
  /\ cleanup_in \in CleanupInputs
  /\ cleanup_out = <<>>
  /\ ParserIdle
  /\ PrefixIdle
  /\ RequestIdle
  /\ MainIdle
  /\ PromptIdle

\* the value the next application is given
CleanupArg ==
  IF cleanup_out = <<>> THEN cleanup_in ELSE cleanup_out[Len(cleanup_out)]

\* lines 964-971 applied to a str
ApplyCleanup ==
  /\ cleanup_fn = "cleanup"
  /\ Len(cleanup_out) < 2
  /\ cleanup_out' = Append(cleanup_out, cleanup(CleanupArg))
  /\ UNCHANGED <<cleanup_fn, cleanup_in, parser_vars, prefix_vars, request_vars, main_vars, prompt_vars>>

\* clean_text applied to a str
ApplyCleanText ==
  /\ cleanup_fn = "clean_text"
  /\ Len(cleanup_out) < 2
  /\ cleanup_out' = Append(cleanup_out, clean_text(CleanupArg))
  /\ UNCHANGED <<cleanup_fn, cleanup_in, parser_vars, prefix_vars, request_vars, main_vars, prompt_vars>>

CleanupNext == ApplyCleanup \/ ApplyCleanText

CleanupSpec == CleanupInit /\ [][CleanupNext]_vars

(***************************************************************************)
(* URL classification, lines 104-211                                       *)
(***************************************************************************)
S_tiktok == <<"t","i","k","t","o","k",".","c","o","m">>
S_instagram == <<"i","n","s","t","a","g","r","a","m",".","c","o","m">>
S_amazonaws == <<"a","m","a","z","o","n","a","w","s",".","c","o","m">>
S_mp4 == <<".","m","p","4">>
S_embed == <<"e","m","b","e","d">>
S_video == <<"/","v","i","d","e","o","/">>
S_p == <<"/","p","/">>
S_reel == <<"/","r","e","e","l","/">>
S_https == <<"h","t","t","p","s",":","/","/">>
S_http == <<"h","t","t","p",":","/","/">>
S_instagram_post == <<"h","t","t","p","s",":","/","/","w","w","w",".","i","n","s","t","a","g","r","a","m",".","c","o","m","/","p","/">>
S_embed_suffix == <<"/","e","m","b","e","d","/">>
S_tiktok_embed == <<"h","t","t","p","s",":","/","/","w","w","w",".","t","i","k","t","o","k",".","c","o","m","/","e","m","b","e","d","/","v","2","/">>

Digits == {"0", "1", "2", "3", "4", "5", "6", "7", "8", "9"}
\* [A-Za-z0-9_-]
IdChars == Letters \cup Digits \cup {"_", "-"}

\* str.endswith(p)
endswith(s, p) ==
  Len(p) <= Len(s) /\ SubSeq(s, Len(s) - Len(p) + 1, Len(s)) = p

\* lines 104-113 where any other URL is taken for a direct link
detect_url_type_lenient(url) ==
  IF contains(url, S_tiktok) THEN "tiktok"
  ELSE IF contains(url, S_instagram) THEN "instagram"
  ELSE "direct_mp4"

\* lines 104-113
detect_url_type(url) ==
  IF contains(url, S_tiktok) THEN "tiktok"
  ELSE IF contains(url, S_instagram) THEN "instagram"
  ELSE IF contains(url, S_amazonaws) \/ endswith(url, S_mp4) THEN "direct_mp4"
  ELSE "unknown"

\* s.split(p)[1] for a str p that occurs in s
second_piece(s, p) ==
  LET rest == Drop(s, find_str(s, p) + Len(p) - 1)
      stop == find_str(rest, p)
  IN  IF stop = 0 THEN rest ELSE SubSeq(rest, 1, stop - 1)

\* s.strip('/')
strip_slash(s) ==
  LET keep == {i \in 1..Len(s) : s[i] # "/"}
  IN  IF keep = {} THEN <<>> ELSE SubSeq(s, MinOf(keep), MaxOf(keep))

\* lines 115-127; the empty str stands for None as well (only the truth
\* value of the result is used by the callers)
extract_tiktok_video_id(url) ==
  IF contains(url, S_embed)
    THEN LET pieces == split(strip_slash(url), "/")
         IN  split(pieces[Len(pieces)], "?")[1]
  ELSE IF contains(url, S_video)
    THEN split(second_piece(url, S_video), "?")[1]
  ELSE <<>>

\* re.search(marker + '([A-Za-z0-9_-]+)', url).group(1), <<>> for no match
search_id(url, marker) ==
  LET at == {i \in 1..Len(url) :
               /\ i + Len(marker) <= Len(url)
               /\ SubSeq(url, i, i + Len(marker) - 1) = marker
               /\ url[i + Len(marker)] \in IdChars}
  IN  IF at = {} THEN <<>>
      ELSE LET b    == MinOf(at) + Len(marker)
               stop == {k \in b..Len(url) : url[k] \notin IdChars}
               e    == IF stop = {} THEN Len(url) ELSE MinOf(stop) - 1
           IN  SubSeq(url, b, e)

\* lines 129-140
extract_instagram_video_id(url) ==
  IF search_id(url, S_p) # <<>> THEN search_id(url, S_p)
  ELSE search_id(url, S_reel)

\* lines 174-211; fetched tells whether get_instagram_video_url got an
\* answer with status 200 for the embed page
convert_to_embed_url(url, fetched) ==
  LET type == detect_url_type(url)
  IN  IF type = "tiktok" /\ contains(url, S_embed)
        THEN [url |-> url, type |-> "tiktok"]
      ELSE IF type = "tiktok" /\ extract_tiktok_video_id(url) # <<>>
        THEN [url  |-> S_tiktok_embed \o extract_tiktok_video_id(url),
              type |-> "tiktok"]
      ELSE IF type = "instagram" /\ contains(url, S_embed)
        THEN [url |-> url, type |-> "instagram"]
      ELSE IF type = "instagram" /\ extract_instagram_video_id(url) # <<>>
                /\ fetched
        THEN [url  |-> S_instagram_post \o extract_instagram_video_id(url)
                         \o S_embed_suffix,
              type |-> "instagram"]
      ELSE IF type = "instagram"
                /\ (contains(url, S_p) \/ contains(url, S_reel))
        THEN [url |-> url, type |-> "instagram"]
      ELSE IF type = "direct_mp4"
        THEN [url  |-> IF startswith(url, S_http) \/ startswith(url, S_https)
                         THEN url ELSE S_https \o url,
              type |-> "direct_mp4"]
      ELSE [url |-> url, type |-> type]

\* the URLs a request is made with
U_tiktok == <<"h","t","t","p","s",":","/","/","w","w","w",".","t","i","k","t","o","k",".","c","o","m","/","@","u","/","v","i","d","e","o","/","7","3","?","x","=","1">>
U_embed == <<"h","t","t","p","s",":","/","/","w","w","w",".","t","i","k","t","o","k",".","c","o","m","/","e","m","b","e","d","/","v","2","/","7","3">>
U_profile == <<"h","t","t","p","s",":","/","/","w","w","w",".","t","i","k","t","o","k",".","c","o","m","/","@","u">>
U_reel == <<"h","t","t","p","s",":","/","/","w","w","w",".","i","n","s","t","a","g","r","a","m",".","c","o","m","/","r","e","e","l","/","C","x","_","1","/">>
U_insta == <<"h","t","t","p","s",":","/","/","w","w","w",".","i","n","s","t","a","g","r","a","m",".","c","o","m","/","u","/">>
U_s3 == <<"h","t","t","p","s",":","/","/","b",".","s","3",".","a","m","a","z","o","n","a","w","s",".","c","o","m","/","c","l","i","p">>
U_mp4 == <<"e","x","a","m","p","l","e",".","c","o","m","/","v",".","m","p","4">>
U_other == <<"h","t","t","p","s",":","/","/","e","x","a","m","p","l","e",".","c","o","m","/","w","a","t","c","h">>
VideoUrls ==
  {U_tiktok, U_embed, U_profile, U_reel, U_insta, U_s3, U_mp4, U_other}

(***************************************************************************)
(* TikTokAnalyzer.analyze_video with try_s3_download and                    *)
(* download_direct_video.  Temporary files are named 1, 2, ...; 0 stands   *)
(* for "no file" (None).                                                   *)
(***************************************************************************)
\* number of times the uploaded file is polled while it is PROCESSING
MaxPolls == 2

\* lines 98-102
S3_BUCKETS ==
  << "linqia-social-post-data.s3.us-east-1.amazonaws.com/tiktok_video_content_analysis",
     "tiktok-videos.s3.amazonaws.com/videos",
     "linqia-social-post-data.s3.us-east-1.amazonaws.com/instagram_video_content_analysis" >>

\* the texts the model answers with: '' and three analyses
R_theme == L_theme \o <<"\n">> \o L_dash
R_two == L_style \o <<"\n">> \o L_safety
ResponseTexts == {<<>>, R_theme, R_two, L_dash}

\* what generate_content returns: response.text, or None (model error)
Responses ==
  {NoResponse} \cup {[is_none |-> FALSE, str |-> t] : t \in ResponseTexts}

\* an entry of the log: the call made, what it was made on, how it ended
Call(op, source, outcome) == [op |-> op, source |-> source, outcome |-> outcome]

\* lines 803-805: the finally clause of analyze_video
finally(files, path) == IF path # 0 /\ path \in files THEN files \ {path} ELSE files

\* "return value" of analyze_video, with its finally clause
Return(value) ==
  /\ result' = value
  /\ req_pc' = "returned"
  /\ temp_files' = finally(temp_files, video_path')

\* lines 750-770: the URL is converted and the download chosen
AnalyzeBegin ==
  /\ req_pc = "start"
  /\ \E fetched \in BOOLEAN :
       LET c  == convert_to_embed_url(video_url, fetched)
           id == IF c.type = "tiktok" THEN extract_tiktok_video_id(video_url)
                 ELSE IF c.type = "instagram"
                   THEN extract_instagram_video_id(video_url)
                 ELSE <<>>
       IN  /\ processed_url' = c.url
           /\ url_type' = c.type
           /\ IF c.url = <<>>
                THEN /\ target_progress' = 10
                     /\ errors' = Append(errors, "Invalid URL format")
                     /\ video_path' = video_path
                     /\ Return(NoResponse)
                     /\ UNCHANGED bucket
                ELSE /\ target_progress' = 30
                     /\ video_path' = 0
                     /\ UNCHANGED <<errors, result, temp_files>>
                     /\ IF c.type \in {"tiktok", "instagram"} /\ id # <<>>
                          THEN req_pc' = "s3_head" /\ bucket' = 1
                        ELSE IF c.type = "direct_mp4"
                          THEN req_pc' = "direct_head" /\ UNCHANGED bucket
                        ELSE req_pc' = "check_path" /\ UNCHANGED bucket
  /\ UNCHANGED <<video_url, tmp_name, next_tmp, file_state, polls, log>>
  /\ UNCHANGED <<parser_vars, prefix_vars, cleanup_vars, main_vars, prompt_vars>>

\* lines 809-827 where a bucket that failed is tried again
NextBucket_again == bucket' = bucket /\ req_pc' = "s3_head"

\* lines 809-827 where the first bucket that fails ends the loop
NextBucket_give_up == bucket' = bucket /\ req_pc' = "check_path"

\* lines 809-827: the for loop goes to the next bucket, or returns None
NextBucket ==
  IF bucket < Len(S3_BUCKETS)
    THEN bucket' = bucket + 1 /\ req_pc' = "s3_head"
    ELSE bucket' = bucket /\ req_pc' = "check_path"

\* lines 811-816: requests.head on the bucket, then the temporary file
S3Head ==
  /\ req_pc = "s3_head"
  /\ target_progress' = 20
  /\ \E outcome \in {"200", "404", "raises"} :
       /\ log' = Append(log, Call("head", S3_BUCKETS[bucket],
                                  IF outcome = "200" THEN "ok" ELSE "failed"))
       /\ IF outcome = "200"
            THEN /\ tmp_name' = next_tmp
                 /\ next_tmp' = next_tmp + 1
                 /\ temp_files' = temp_files \cup {next_tmp}
                 /\ req_pc' = "s3_get"
                 /\ UNCHANGED bucket
            ELSE /\ NextBucket
                 /\ UNCHANGED <<tmp_name, next_tmp, temp_files>>
  /\ UNCHANGED <<video_url, processed_url, url_type, video_path, file_state,
                 polls, result, errors>>
  /\ UNCHANGED <<parser_vars, prefix_vars, cleanup_vars, main_vars, prompt_vars>>

\* lines 817-826: requests.get and the writing of the chunks
S3Get ==
  /\ req_pc = "s3_get"
  /\ \E outcome \in {"written", "raises"} :
       /\ log' = Append(log, Call("get", S3_BUCKETS[bucket],
                                  IF outcome = "written" THEN "ok" ELSE "failed"))
       /\ IF outcome = "written"
            THEN /\ video_path' = tmp_name
                 /\ req_pc' = "check_path"
                 /\ UNCHANGED bucket
            ELSE /\ NextBucket
                 /\ UNCHANGED video_path
  /\ UNCHANGED <<video_url, processed_url, url_type, tmp_name, next_tmp,
                 temp_files, file_state, polls, result, errors,
                 target_progress>>
  /\ UNCHANGED <<parser_vars, prefix_vars, cleanup_vars, main_vars, prompt_vars>>

\* lines 831-834 and 843-846: requests.head on the direct URL
DirectHead ==
  /\ req_pc = "direct_head"
  /\ \E outcome \in {"200", "404", "raises"} :
       /\ log' = Append(log, Call("head", "direct",
                                  IF outcome = "200" THEN "ok" ELSE "failed"))
       /\ IF outcome = "200"
            THEN /\ tmp_name' = next_tmp
                 /\ next_tmp' = next_tmp + 1
                 /\ temp_files' = temp_files \cup {next_tmp}
                 /\ req_pc' = "direct_get"
                 /\ UNCHANGED errors
            ELSE /\ req_pc' = "check_path"
                 /\ errors' = IF outcome = "raises"
                                THEN Append(errors, "Error downloading video")
                                ELSE errors
                 /\ UNCHANGED <<tmp_name, next_tmp, temp_files>>
  /\ UNCHANGED <<video_url, processed_url, url_type, bucket, video_path,
                 file_state, polls, result, target_progress>>
  /\ UNCHANGED <<parser_vars, prefix_vars, cleanup_vars, main_vars, prompt_vars>>

\* lines 835-845: requests.get and the writing of the chunks
DirectGet ==
  /\ req_pc = "direct_get"
  /\ \E outcome \in {"written", "raises"} :
       /\ log' = Append(log, Call("get", "direct",
                                  IF outcome = "written" THEN "ok" ELSE "failed"))
       /\ IF outcome = "written"
            THEN video_path' = tmp_name /\ UNCHANGED errors
            ELSE /\ video_path' = video_path
                 /\ errors' = Append(errors, "Error downloading video")
  /\ req_pc' = "check_path"
  /\ UNCHANGED <<video_url, processed_url, url_type, bucket, tmp_name,
                 next_tmp, temp_files, file_state, polls, result,
                 target_progress>>
  /\ UNCHANGED <<parser_vars, prefix_vars, cleanup_vars, main_vars, prompt_vars>>

\* lines 665-675: the prompt template handed to the model, and the errors
\* shown on the way; built is whether build_prompt returned a prompt
get_analysis_prompt(style, built) ==
  IF style = "With Prompt Options"
    THEN IF built
           THEN [prompt |-> "options", errors |-> <<>>]
           ELSE [prompt |-> "default",
                 errors |-> <<"Error building prompt",
                              "Failed to build prompt with options">>]
    ELSE [prompt |-> "default", errors |-> <<>>]

\* lines 772-780: no file ends the request; otherwise the prompt is chosen
\* and the file uploaded (the platform is "Google Gemini", the only option
\* of the radio, line 292)
CheckPathAndUpload ==
  /\ req_pc = "check_path"
  /\ IF video_path = 0
       THEN /\ errors' = Append(errors, "Failed to analyse video")
            /\ video_path' = video_path
            /\ Return(NoResponse)
            /\ UNCHANGED <<file_state, target_progress, log, prompt>>
       ELSE /\ target_progress' = 50
            /\ video_path' = video_path
            /\ \E built \in BOOLEAN,
                  outcome \in {"PROCESSING", "ACTIVE", "FAILED", "raises"} :
                 LET g == get_analysis_prompt(prompt_style, built)
                 IN  /\ prompt' = g.prompt
                     /\ log' = Append(log, Call("upload_file", "model",
                                  IF outcome \in {"FAILED", "raises"}
                                    THEN "failed" ELSE "ok"))
                     /\ IF outcome = "raises"
                          THEN /\ errors' = Append(errors \o g.errors,
                                                   "Analysis error")
                               /\ Return(NoResponse)
                               /\ UNCHANGED file_state
                          ELSE /\ file_state' = outcome
                               /\ req_pc' = "processing"
                               /\ errors' = errors \o g.errors
                               /\ UNCHANGED <<result, temp_files>>
  /\ UNCHANGED <<video_url, processed_url, url_type, bucket, tmp_name,
                 next_tmp, polls>>
  /\ UNCHANGED <<heading_no, answer, answer_table>>
  /\ UNCHANGED <<parser_vars, prefix_vars, cleanup_vars, main_vars>>

\* lines 782-784: one turn of the while loop
Poll ==
  /\ req_pc = "processing"
  /\ file_state = "PROCESSING"
  /\ polls' = polls + 1
  /\ video_path' = video_path
  /\ \E outcome \in {"PROCESSING", "ACTIVE", "FAILED", "raises"} :
       /\ outcome = "PROCESSING" => polls + 1 < MaxPolls
       /\ log' = Append(log, Call("get_file", "model",
                    IF outcome \in {"FAILED", "raises"} THEN "failed" ELSE "ok"))
       /\ IF outcome = "raises"
            THEN /\ errors' = Append(errors, "Analysis error")
                 /\ Return(NoResponse)
                 /\ UNCHANGED file_state
            ELSE /\ file_state' = outcome
                 /\ UNCHANGED <<req_pc, errors, result, temp_files>>
  /\ UNCHANGED <<video_url, processed_url, url_type, bucket, tmp_name,
                 next_tmp, target_progress>>
  /\ UNCHANGED <<parser_vars, prefix_vars, cleanup_vars, main_vars, prompt_vars>>

\* lines 785-797 without the test of the FAILED state
Generate_on_failed_file ==
  /\ req_pc = "processing"
  /\ file_state # "PROCESSING"
  /\ video_path' = video_path
  /\ \E response \in Responses :
       /\ log' = Append(log, Call("generate_content", "model",
                    IF response.is_none THEN "failed" ELSE "ok"))
       /\ errors' = IF response.is_none
                      THEN Append(errors, "Model error")
                      ELSE errors
       /\ target_progress' = 90
       /\ Return(response)
  /\ UNCHANGED <<video_url, processed_url, url_type, bucket, tmp_name,
                 next_tmp, file_state, polls>>
  /\ UNCHANGED <<parser_vars, prefix_vars, cleanup_vars, main_vars, prompt_vars>>

\* lines 785-797 with generate_content, lines 393-463
Generate ==
  /\ req_pc = "processing"
  /\ file_state # "PROCESSING"
  /\ video_path' = video_path
  /\ IF file_state = "FAILED"
       THEN /\ errors' = Append(errors, "Video processing failed")
            /\ Return(NoResponse)
            /\ UNCHANGED <<target_progress, log>>
       ELSE \E response \in Responses :
              /\ log' = Append(log, Call("generate_content", "model",
                           IF response.is_none THEN "failed" ELSE "ok"))
              /\ errors' = IF response.is_none
                             THEN Append(errors, "Model error")
                             ELSE errors
              /\ target_progress' = 90
              /\ Return(response)
  /\ UNCHANGED <<video_url, processed_url, url_type, bucket, tmp_name,
                 next_tmp, file_state, polls>>
  /\ UNCHANGED <<parser_vars, prefix_vars, cleanup_vars, main_vars, prompt_vars>>

RequestInit ==
  /\ video_url \in VideoUrls
  /\ req_pc = "start"
  /\ processed_url = <<>>
  /\ url_type = None
  /\ bucket = 0
  /\ tmp_name = 0
  /\ next_tmp = 1
  /\ temp_files = {}
  /\ video_path = 0
  /\ file_state = None
  /\ polls = 0
  /\ result = NoResponse
  /\ errors = <<>>
  /\ target_progress = 0
  /\ log = <<>>
  /\ ParserIdle
  /\ PrefixIdle
  /\ CleanupIdle
  /\ MainIdle
  /\ PromptIdle

RequestNext ==
  \/ AnalyzeBegin
  \/ S3Head
  \/ S3Get
  \/ DirectHead
  \/ DirectGet
  \/ CheckPathAndUpload
  \/ Poll
  \/ Generate

RequestSpec == RequestInit /\ [][RequestNext]_vars

(***************************************************************************)
(* GoogleSheetsManager, lines 976-1107                                     *)
(***************************************************************************)
\* lines 987-1011
headers ==
  << "Timestamp", "AI Platform", "Model", "Prompting Style", "Temperature",
     "Max Tokens", "Video URL",
     "Video Summary", "Content Theme", "Content Style", "Creator Presence",
     "Key Video Elements", "On-Screen Text/Graphics", "Spoken Words",
     "Technical Elements", "Auditory Elements", "Language",
     "Sentiment/Tone/Vibe", "Video Length", "Brand Safety", "Brands Featured",
     "Target Audience", "Location" >>

\* lines 1091-1097 with two names in the other order
sheet_categories_swapped ==
  << "Video Summary", "Content Style", "Content Theme",
     "Creator Presence", "Key Video Elements", "On-Screen Text/Graphics",
     "Spoken Words", "Technical Elements", "Auditory Elements",
     "Language", "Sentiment/Tone/Vibe", "Video Length",
     "Brand Safety", "Brands Featured", "Target Audience", "Location" >>

\* lines 1091-1097: the local list of append_analysis_results
sheet_categories ==
  << "Video Summary", "Content Theme", "Content Style",
     "Creator Presence", "Key Video Elements", "On-Screen Text/Graphics",
     "Spoken Words", "Technical Elements", "Auditory Elements",
     "Language", "Sentiment/Tone/Vibe", "Video Length",
     "Brand Safety", "Brands Featured", "Target Audience", "Location" >>

\* line 296-300: the options of the prompting style selectbox
PromptStyles == {"With Options", "Without Options"}

\* lines 1081-1089: the seven cells of request metadata; the timestamp, the
\* model name and the two sliders are tokens
row_metadata(url, style) ==
  << "timestamp", "Google Gemini", "model_name", style, "temperature",
     "max_output_tokens", url >>

\* line 1100: analysis_df.loc[analysis_df['Category'] == category,
\* 'Analysis'].iloc[0], which raises when no row has that Category
loc_analysis(frame, category) ==
  LET rows == {i \in 1..Len(frame) : frame[i].Category = category}
  IN  IF frame = <<>> THEN [raised |-> FALSE, value |-> <<>>]
      ELSE IF rows = {} THEN [raised |-> TRUE, value |-> <<>>]
      ELSE [raised |-> FALSE, value |-> frame[MinOf(rows)].Analysis]

\* lines 1081-1101: row_data
row_data(url, frame, style) ==
  [raised |-> \E k \in 1..Len(sheet_categories) :
                loc_analysis(frame, sheet_categories[k]).raised,
   row    |-> row_metadata(url, style)
                \o [k \in 1..Len(sheet_categories) |->
                      loc_analysis(frame, sheet_categories[k]).value]]

(***************************************************************************)
(* main_async with the ProgressManager, lines 465-490 and 1117-1185        *)
(***************************************************************************)
\* lines 483-490 with 'if' in the place of 'while': the task ends after one
\* turn
animate_one_turn(running, current, target) ==
  [done    |-> TRUE,
   current |-> IF running /\ current < 100 /\ current < target
                 THEN current + 1 ELSE current]

\* lines 483-490: one turn of the while loop of ProgressManager.animate
animate(running, current, target) ==
  IF running /\ current < 100
    THEN [done    |-> FALSE,
          current |-> IF current < target THEN current + 1 ELSE current]
    ELSE [done |-> TRUE, current |-> current]

\* number of increments of current_progress followed while the request runs
MaxProgress == 3

\* the main coroutine is suspended: asyncio.sleep of line 783, or line 1150
MainSuspended ==
  \/ main_pc = "analyzing" /\ req_pc = "processing" /\ file_state = "PROCESSING"
  \/ main_pc = "await_animation"

\* lines 1127-1147: the URL is converted, the video displayed, the progress
\* manager and its task created, analyze_video called
MainBegin ==
  /\ main_pc = "input"
  /\ \E fetched \in BOOLEAN :
       IF convert_to_embed_url(video_url, fetched).url = <<>>
         THEN /\ errors' = Append(errors, "Invalid URL format")
              /\ main_pc' = "done"
              /\ UNCHANGED <<req_pc, is_running, current_progress,
                             animation_task, target_progress>>
         ELSE /\ current_progress' = 0
              /\ target_progress' = 0
              /\ is_running' = TRUE
              /\ animation_task' = "pending"
              /\ req_pc' = "start"
              /\ main_pc' = "analyzing"
              /\ UNCHANGED errors
  /\ UNCHANGED <<video_url, processed_url, url_type, bucket, tmp_name,
                 next_tmp, temp_files, video_path, file_state, polls, result,
                 log>>
  /\ UNCHANGED <<prompt_style, session_results, table_shown, sheet_rows>>
  /\ UNCHANGED <<parser_vars, prefix_vars, cleanup_vars, prompt_vars>>

\* lines 483-490: the animation task runs one turn of its loop
Animate ==
  /\ animation_task = "pending"
  /\ MainSuspended
  /\ main_pc = "analyzing" => current_progress < MaxProgress
  /\ LET a == animate(is_running, current_progress, target_progress)
     IN  /\ current_progress' = a.current
         /\ animation_task' = IF a.done THEN "done" ELSE "pending"
  /\ UNCHANGED <<main_pc, prompt_style, is_running, session_results,
                 table_shown, sheet_rows>>
  /\ UNCHANGED <<parser_vars, prefix_vars, cleanup_vars, request_vars, prompt_vars>>

\* lines 1147-1150 without the call of stop()
StopProgress_without_stop ==
  /\ main_pc = "analyzing"
  /\ req_pc = "returned"
  /\ is_running' = is_running
  /\ main_pc' = "await_animation"
  /\ UNCHANGED <<prompt_style, current_progress, animation_task,
                 session_results, table_shown, sheet_rows>>
  /\ UNCHANGED <<parser_vars, prefix_vars, cleanup_vars, request_vars, prompt_vars>>

\* lines 1147-1150: analyze_video has returned; stop(), await animation_task
StopProgress ==
  /\ main_pc = "analyzing"
  /\ req_pc = "returned"
  /\ is_running' = FALSE
  /\ main_pc' = "await_animation"
  /\ UNCHANGED <<prompt_style, current_progress, animation_task,
                 session_results, table_shown, sheet_rows>>
  /\ UNCHANGED <<parser_vars, prefix_vars, cleanup_vars, request_vars, prompt_vars>>

\* lines 1150-1184: the task is over; the result is parsed, stored, appended
\* to the worksheet and shown
ShowResults ==
  /\ main_pc = "await_animation"
  /\ animation_task = "done"
  /\ main_pc' = "done"
  /\ IF falsy(result)
       THEN UNCHANGED <<session_results, table_shown, sheet_rows, errors>>
       ELSE LET t == create_analysis_table(result)
                r == row_data(video_url, t.df, prompt_style)
            IN  IF t.raised
                  THEN /\ errors' = Append(errors, "An error occurred")
                       /\ UNCHANGED <<session_results, table_shown, sheet_rows>>
                ELSE IF t.df = <<>>
                  THEN UNCHANGED <<session_results, table_shown, sheet_rows,
                                   errors>>
                ELSE /\ session_results' = t.df
                     /\ table_shown' = t.df
                     /\ \E appended \in BOOLEAN :
                          IF appended /\ ~r.raised
                            THEN /\ sheet_rows' = Append(sheet_rows, r.row)
                                 /\ UNCHANGED errors
                            ELSE /\ errors' = Append(errors,
                                        "Error appending to Google Sheets")
                                 /\ UNCHANGED sheet_rows
  /\ UNCHANGED <<prompt_style, is_running, current_progress, animation_task>>
  /\ UNCHANGED <<video_url, req_pc, processed_url, url_type, bucket, tmp_name,
                 next_tmp, temp_files, video_path, file_state, polls, result,
                 target_progress, log>>
  /\ UNCHANGED <<parser_vars, prefix_vars, cleanup_vars, prompt_vars>>

MainInit ==
  /\ video_url \in VideoUrls
  /\ prompt_style \in PromptStyles
  /\ main_pc = "input"
  /\ req_pc = "idle"
  /\ processed_url = <<>>
  /\ url_type = None
  /\ bucket = 0
  /\ tmp_name = 0
  /\ next_tmp = 1
  /\ temp_files = {}
  /\ video_path = 0
  /\ file_state = None
  /\ polls = 0
  /\ result = NoResponse
  /\ errors = <<>>
  /\ target_progress = 0
  /\ log = <<>>
  /\ is_running = FALSE
  /\ current_progress = 0
  /\ animation_task = "none"
  /\ session_results = <<>>
  /\ table_shown = <<>>
  /\ sheet_rows = <<>>
  /\ ParserIdle
  /\ PrefixIdle
  /\ CleanupIdle
  /\ PromptIdle

MainNext ==
  \/ MainBegin
  \/ RequestNext
  \/ Animate
  \/ StopProgress
  \/ ShowResults

MainSpec == MainInit /\ [][MainNext]_vars

\* the event loop runs every task that is ready: main_async once
\* analyze_video has returned, and the animation task while main_async is
\* suspended
MainLiveSpec == MainSpec /\ WF_vars(StopProgress) /\ WF_vars(Animate)

(***************************************************************************)
(* The prompt templates, lines 570-641 and 677-746: the 16 headings each   *)
(* asks for, as written in the template up to the '[' of the instructions  *)
(***************************************************************************)
\* lines 679-744: get_default_prompt
default_prompt_headings ==
  << <<"a",")"," ","B","r","i","e","f"," ","v","i","d","e","o"," ","s","u","m","m","a","r","y"," ","-">>,
     <<"i",")"," ","C","o","n","t","e","n","t"," ","T","h","e","m","e">>,
     <<"i","i",")"," ","C","o","n","t","e","n","t"," ","S","t","y","l","e">>,
     <<"i","i","i",")"," ","C","r","e","a","t","o","r"," ","P","r","e","s","e","n","c","e">>,
     <<"i","v",")"," ","K","e","y"," ","V","i","d","e","o"," ","E","l","e","m","e","n","t","s">>,
     <<"v",")"," ","O","n","-","S","c","r","e","e","n"," ","T","e","x","t","/","G","r","a","p","h","i","c","s">>,
     <<"v","i",")"," ","S","p","o","k","e","n"," ","W","o","r","d","s">>,
     <<"v","i","i",")"," ","T","e","c","h","n","i","c","a","l"," ","E","l","e","m","e","n","t","s">>,
     <<"v","i","i","i",")"," ","A","u","d","i","t","o","r","y"," ","E","l","e","m","e","n","t","s">>,
     <<"i","x",")"," ","L","a","n","g","u","a","g","e">>,
     <<"x",")"," ","S","e","n","t","i","m","e","n","t","/","T","o","n","e","/","V","i","b","e">>,
     <<"x","i",")"," ","V","i","d","e","o"," ","L","e","n","g","t","h">>,
     <<"x","i","i",")"," ","B","r","a","n","d"," ","S","a","f","e","t","y">>,
     <<"x","i","i","i",")"," ","B","r","a","n","d","s"," ","F","e","a","t","u","r","e","d">>,
     <<"x","i","v",")"," ","T","a","r","g","e","t"," ","A","u","d","i","e","n","c","e">>,
     <<"x","v",")"," ","L","o","c","a","t","i","o","n">> >>

\* lines 589-641: PromptBuilder.build_prompt
options_prompt_headings ==
  << <<"a",")"," ","B","r","i","e","f"," ","v","i","d","e","o"," ","s","u","m","m","a","r","y">>,
     <<"i",")"," ","C","o","n","t","e","n","t"," ","T","h","e","m","e">>,
     <<"i","i",")"," ","C","o","n","t","e","n","t"," ","S","t","y","l","e">>,
     <<"i","i","i",")"," ","C","r","e","a","t","o","r"," ","P","r","e","s","e","n","c","e">>,
     <<"i","v",")"," ","K","e","y"," ","V","i","d","e","o"," ","E","l","e","m","e","n","t","s">>,
     <<"v",")"," ","O","n","-","S","c","r","e","e","n"," ","T","e","x","t","/","G","r","a","p","h","i","c","s">>,
     <<"v","i",")"," ","S","p","o","k","e","n"," ","W","o","r","d","s">>,
     <<"v","i","i",")"," ","T","e","c","h","n","i","c","a","l"," ","E","l","e","m","e","n","t","s">>,
     <<"v","i","i","i",")"," ","A","u","d","i","t","o","r","y"," ","E","l","e","m","e","n","t","s">>,
     <<"i","x",")"," ","L","a","n","g","u","a","g","e">>,
     <<"x",")"," ","S","e","n","t","i","m","e","n","t","/","T","o","n","e","/","V","i","b","e">>,
     <<"x","i",")"," ","V","i","d","e","o"," ","L","e","n","g","t","h">>,
     <<"x","i","i",")"," ","B","r","a","n","d"," ","S","a","f","e","t","y">>,
     <<"x","i","i","i",")"," ","B","r","a","n","d","s"," ","F","e","a","t","u","r","e","d">>,
     <<"x","i","v",")"," ","T","a","r","g","e","t"," ","A","u","d","i","e","n","c","e">>,
     <<"x","v",")"," ","L","o","c","a","t","i","o","n">> >>

PromptNames == {"default", "options"}
headings_of(name) ==
  IF name = "default" THEN default_prompt_headings ELSE options_prompt_headings

\* str.upper()
upper(s) == [i \in 1..Len(s) |-> upper_char(s[i])]

\* the value given under a repeated heading
V_answer == <<"V","l","o","g">>

\* the ways a response repeats the heading h: with its value on the same
\* line, on the next line, in bold, and in upper case
AnswerForms(h) ==
  { h \o <<":", " ">> \o V_answer,
    h \o <<"\n">> \o V_answer,
    <<"*", "*">> \o h \o <<":", "*", "*", " ">> \o V_answer,
    upper(h) \o <<":", " ">> \o V_answer }

PromptInit ==
  /\ prompt \in PromptNames
  /\ heading_no \in 1..Len(categories)
  /\ answer \in AnswerForms(headings_of(prompt)[heading_no])
  /\ answer_table = <<>>
  /\ ParserIdle
  /\ PrefixIdle
  /\ CleanupIdle
  /\ RequestIdle
  /\ MainIdle

\* create_analysis_table(answer)
ParseAnswer ==
  /\ answer # <<>>
  /\ answer_table = <<>>
  /\ answer_table' =
       <<create_analysis_table([is_none |-> FALSE, str |-> answer])>>
  /\ UNCHANGED <<prompt, heading_no, answer>>
  /\ UNCHANGED <<parser_vars, prefix_vars, cleanup_vars, request_vars,
                 main_vars>>

PromptNext == ParseAnswer

PromptSpec == PromptInit /\ [][PromptNext]_vars

(***************************************************************************)
(* Properties of create_analysis_table                                     *)
(***************************************************************************)
\* a Python str of the model
IsStr(v) == DOMAIN v = 1..Len(v) /\ \A j \in 1..Len(v) : v[j] \in STRING

\* one row per declared category, in declared order, Analysis a str
IsTotal(frame) ==
  /\ Len(frame) = 16
  /\ Len(frame) = Len(categories)
  /\ \A i \in 1..Len(frame) :
       frame[i].Category = categories[i] /\ IsStr(frame[i].Analysis)

\* the Analysis value of a category in a frame that has a row for it
Field(frame, category) ==
  frame[CHOOSE i \in 1..Len(frame) : frame[i].Category = category].Analysis

\* some registered heading phrase occurs in the line, case-insensitively
HasPhrase(line) ==
  \E k \in 1..Len(category_mapping) :
     contains(lower(line), category_mapping[k].key)

\* the argument is None or the empty str
EmptyArg == text.is_none \/ text.str = <<>>

C3_NeverRaisesAndUnparseableIsEmpty ==
  /\ ~raised
  /\ (pc = "done" /\ ~EmptyArg
        /\ \A k \in 1..Len(lines) : ~HasPhrase(lines[k]))
     => (IsTotal(df) /\ \A i \in 1..Len(df) : df[i].Analysis = <<>>)

C3_Witness ==
  /\ pc = "done" /\ ~raised
  /\ Len(lines) = 2
  /\ \A k \in 1..Len(lines) : strip(lines[k]) # <<>> /\ ~HasPhrase(lines[k])
  /\ \A i \in 1..Len(df) : df[i].Analysis = <<>>

(***************************************************************************)
(* Heading lines of the form '<Phrase>: <value>'                           *)
(***************************************************************************)
\* the phrases a line starts with, immediately followed by ':'
PhraseIndex(line) ==
  {k \in 1..Len(category_mapping) :
     startswith(lower(line), category_mapping[k].key \o <<":">>)}
IsPhraseLine(line) == PhraseIndex(line) # {}
PhraseKey(line) == category_mapping[CHOOSE k \in PhraseIndex(line) : TRUE]
PhraseCategory(line) == PhraseKey(line).category
\* the value: the text after '<Phrase>:', trimmed
ValueOf(line) == strip(Drop(line, Len(PhraseKey(line).key) + 1))
\* white space runs collapsed to one space, ends trimmed
Normalised(v) == join(split_ws(v), <<" ">>)

\* a list marker in the value: a bullet, or letters followed by ')', at the
\* start of the value or after white space
ContainsListMarker(v) ==
  \E i \in 1..Len(v) :
     /\ i = 1 \/ v[i - 1] \in Whitespace
     /\ \/ v[i] \in {"*", "-", "bullet"}
        \/ \E n \in 1..(Len(v) - i) :
              /\ \A j \in i..(i + n - 1) : v[j] \in Letters
              /\ v[i + n] = ")"
\* a category label '<CategoryName>:' in the value
ContainsLabel(v) ==
  \E k \in 1..Len(CategoryText) : contains(v, CategoryText[k] \o <<":">>)
\* the restrictions C4 puts on a value
PlainValue(v) ==
  /\ ~HasPhrase(v)
  /\ \A j \in 1..Len(v) : v[j] \notin {"[", "]", "*"}
  /\ ~ContainsListMarker(v)

RawLines == split(text.str, "\n")

\* the text is made only of lines '<Phrase>: <value>', one per category
OnlyPhraseLines ==
  /\ ~EmptyArg
  /\ \A j \in 1..Len(RawLines) : IsPhraseLine(RawLines[j])
  /\ \A j, k \in 1..Len(RawLines) :
       j # k => PhraseCategory(RawLines[j]) # PhraseCategory(RawLines[k])

\* each named category holds its normalised value, every other one ''
FieldsAreValues ==
  /\ IsTotal(df)
  /\ \A i \in 1..Len(df) :
       IF \E j \in 1..Len(RawLines) : PhraseCategory(RawLines[j]) = df[i].Category
         THEN LET j == CHOOSE j \in 1..Len(RawLines) :
                         PhraseCategory(RawLines[j]) = df[i].Category
              IN  df[i].Analysis = Normalised(ValueOf(RawLines[j]))
         ELSE df[i].Analysis = <<>>

\* C4 as stated: for a text made only of heading lines '<Phrase>: <value>',
\* one per distinct category, whose values contain no heading phrase, no
\* bracket, no '*' and no list marker, each named category's field equals
\* its value, whitespace-normalised, and every other field is ''.
C4_FieldsEqualValues ==
  (pc = "done" /\ OnlyPhraseLines
     /\ \A j \in 1..Len(RawLines) : PlainValue(ValueOf(RawLines[j])))
  => FieldsAreValues

\* C4, amended: the same, for values that in addition contain no category
\* label '<CategoryName>:' (such as 'Video Summary:', the one label that
\* contains no registered phrase; the cleanup deletes it from the value).
C4_FieldsEqualLabelFreeValues ==
  (pc = "done" /\ OnlyPhraseLines
     /\ \A j \in 1..Len(RawLines) :
          PlainValue(ValueOf(RawLines[j])) /\ ~ContainsLabel(ValueOf(RawLines[j])))
  => FieldsAreValues

C4_Witness ==
  /\ pc = "done"
  /\ text.str = join(<<L_theme, L_style>>, <<"\n">>)
  /\ OnlyPhraseLines
  /\ \A j \in 1..Len(RawLines) :
       PlainValue(ValueOf(RawLines[j])) /\ ~ContainsLabel(ValueOf(RawLines[j]))
  /\ Field(df, "Content Theme") =
       <<"C","o","m","e","d","y"," ","(","8","0","%",")",","," ","D","r","a","m","a"," ","(","2","0","%",")">>
  /\ Field(df, "Content Style") = <<"V","l","o","g">>

(***************************************************************************)
(* A heading line followed by continuation lines                           *)
(***************************************************************************)
\* the first line is '<Phrase>: v0' and every later line is a non-blank
\* line without a heading phrase
HeadingThenBody ==
  /\ ~EmptyArg
  /\ Len(lines) >= 1
  /\ IsPhraseLine(strip(lines[1]))
  /\ \A k \in 2..Len(lines) : strip(lines[k]) # <<>> /\ ~HasPhrase(lines[k])

\* v0, l1', ..., ln' without the empty entries, joined with ', '
JoinedEntries ==
  LET entries == [k \in 1..Len(lines) |->
                    IF k = 1 THEN ValueOf(strip(lines[1]))
                    ELSE sub_bullet(strip(lines[k]))]
  IN  join(SelectSeq(entries, LAMBDA e : e # <<>>), <<",", " ">>)

\* C5 as stated: for a heading line '<Phrase>: v0' followed by non-heading,
\* non-blank lines l1..ln, the category's field is v0, l1', ..., ln' joined
\* with ', ' in input order (bullet markers removed, empty entries skipped).
C5_FieldIsJoin ==
  (pc = "done" /\ HeadingThenBody)
  => Field(df, PhraseCategory(strip(lines[1]))) = JoinedEntries

\* C5, amended: for a text made of a heading line '<Phrase>: v0', v0 without
\* a heading phrase, followed by non-heading, non-blank lines l1..ln, the
\* category's field is the post-process cleanup (label removal, leading
\* list-marker removal, clean_text) of v0, l1', ..., ln' joined with ', '.
C5_FieldIsCleanedJoin ==
  (pc = "done" /\ HeadingThenBody /\ ~HasPhrase(ValueOf(strip(lines[1]))))
  => Field(df, PhraseCategory(strip(lines[1]))) = cleanup(JoinedEntries)

C5_Witness ==
  /\ pc = "done"
  /\ text.str = join(<<L_safety, L_dash>>, <<"\n">>)
  /\ HeadingThenBody
  /\ Field(df, "Brand Safety") =
       <<"n","o","n","e",","," ","n","o"," ","c","o","n","c","e","r","n","s"," ","n","o","t","e","d">>

(***************************************************************************)
(* Bracketed asides                                                        *)
(***************************************************************************)
\* C6: no returned Analysis value contains a '[' that is followed later in
\* the same value by a ']'; 'Language: English [choose one]' gives
\* Language = 'English'.
C6_NoBracketedAside ==
  pc = "done" =>
    /\ \A i \in 1..Len(df) :
         ~\E j, k \in 1..Len(df[i].Analysis) :
            j < k /\ df[i].Analysis[j] = "[" /\ df[i].Analysis[k] = "]"
    /\ text.str = L_aside =>
         Field(df, "Language") = <<"E","n","g","l","i","s","h">>

C6_Witness ==
  /\ pc = "done"
  /\ text.str = L_aside
  /\ Field(df, "Language") = <<"E","n","g","l","i","s","h">>

(***************************************************************************)
(* Substring matching of headings                                          *)
(***************************************************************************)
\* the categories whose phrase occurs somewhere in the line
CategoriesIn(line) ==
  {category_mapping[k].category : k \in
     {k \in 1..Len(category_mapping) :
        contains(lower(line), category_mapping[k].key)}}

\* C9: a non-blank line is treated as a category heading if and only if its
\* lowercased text contains a registered phrase anywhere in the line: such a
\* line makes a category of its phrases the active one and restarts the
\* buffer instead of being appended to it; a line without a phrase leaves
\* the active category and the table alone and is at most appended.
C9_HeadingIffPhraseAnywhere ==
  [][ (pc = "loop" /\ line_no <= Len(lines) /\ strip(lines[line_no]) # <<>>)
      => LET line == strip(lines[line_no])
         IN  IF HasPhrase(line)
               THEN /\ current_category' \in CategoriesIn(line)
                    /\ Len(content_buffer') <= 1
                    /\ content_buffer' # Append(content_buffer, sub_bullet(line))
               ELSE /\ current_category' = current_category
                    /\ df' = df
                    /\ content_buffer' \in
                         IF current_category = None THEN {content_buffer}
                         ELSE {content_buffer,
                               Append(content_buffer, sub_bullet(line))}
    ]_vars

\* 'Brand Safety: none' then 'shot on location': the second line switched
\* the active category to Location
C9_Witness ==
  /\ pc = "loop"
  /\ text.str = join(<<L_safety, L_mid>>, <<"\n">>)
  /\ line_no = 3
  /\ current_category = "Location"
  /\ content_buffer = <<>>
  /\ Field(df, "Brand Safety") = <<"n","o","n","e">>

(***************************************************************************)
(* List prefixes in front of a heading line                                *)
(***************************************************************************)
\* C7: for every heading line L and every list prefix P (a roman numeral
\* i..xv followed by ')' or a single letter followed by ')'), parsing 'P L'
\* gives exactly the same record as parsing L, and neither call raises.
C7_PrefixedHeadingParsesTheSame ==
  (table_plain # <<>> /\ table_prefixed # <<>>)
  => /\ table_prefixed[1].df = table_plain[1].df
     /\ ~table_prefixed[1].raised /\ ~table_plain[1].raised

\* 'ii) Content Style: Vlog' and 'Content Style: Vlog'
C7_Witness ==
  /\ heading_line = L_style
  /\ list_prefix = <<"i", "i", ")">>
  /\ table_plain # <<>> /\ table_prefixed # <<>>
  /\ Field(table_prefixed[1].df, "Content Style") = <<"V","l","o","g">>
  /\ Field(table_plain[1].df, "Content Style") = <<"V","l","o","g">>

(***************************************************************************)
(* Idempotence of the cleanup                                              *)
(***************************************************************************)
\* C8 as stated: the per-field cleanup (label removal, leading list-marker
\* removal, clean_text) is idempotent: for every str s, the cleanup of
\* cleanup(s) is cleanup(s).
C8_CleanupIdempotent ==
  (cleanup_fn = "cleanup" /\ Len(cleanup_out) = 2)
  => cleanup_out[2] = cleanup_out[1]

\* C8, amended: the clean_text part of the cleanup ('*' removal, bracket
\* stripping, whitespace collapse, trim) is idempotent on every str without
\* a line break, as every field is: clean_text of clean_text(s) is
\* clean_text(s).
C8_CleanTextIdempotent ==
  (cleanup_fn = "clean_text" /\ Len(cleanup_out) = 2
     /\ \A j \in 1..Len(cleanup_in) : cleanup_in[j] # "\n")
  => cleanup_out[2] = cleanup_out[1]

\* ' [a]* ' is cleaned to the empty str, and stays so
C8_Witness ==
  /\ cleanup_fn = "clean_text"
  /\ cleanup_in = <<"[", "a", "]", "*">>
  /\ Len(cleanup_out) = 2
  /\ cleanup_out[1] = <<>>
  /\ cleanup_out[2] = <<>>

(***************************************************************************)
(* Temporary media files                                                   *)
(***************************************************************************)
\* C10: every temporary media file created during a request (in
\* try_s3_download or download_direct_video) no longer exists when
\* analyze_video returns, on every exit path.
C10_NoTempFileAfterReturn == req_pc = "returned" => temp_files = {}

(***************************************************************************)
(* Properties of main_async                                                *)
(***************************************************************************)
\* the animation task exists

\* as MainLiveSpec, and every call of analyze_video returns or raises: the
\* coroutine goes on after each download, upload, poll and model call
MainFairSpec ==
  /\ MainSpec
  /\ WF_vars(StopProgress)
  /\ WF_vars(Animate)
  /\ WF_vars(S3Head)
  /\ WF_vars(S3Get)
  /\ WF_vars(DirectHead)
  /\ WF_vars(DirectGet)
  /\ WF_vars(CheckPathAndUpload)
  /\ WF_vars(Poll)
  /\ WF_vars(Generate)

TaskCreated == animation_task # "none"

\* C11: in every run of main_async in which the animation task was created,
\* stop() is called after analyze_video has finished, whatever it returned,
\* the task is then awaited to completion, and no animation task is still
\* running when main_async returns.
C11_AnimationStoppedAndAwaited ==
  /\ [](main_pc = "await_animation" => req_pc = "returned" /\ ~is_running)
  /\ [](main_pc = "done" /\ TaskCreated =>
          ~is_running /\ animation_task = "done")
  /\ (TaskCreated /\ req_pc = "returned"
        ~> ~is_running /\ animation_task = "done")

\* main_async has returned after a request that failed, its task over
C11_Witness ==
  /\ main_pc = "done"
  /\ animation_task = "done"
  /\ result.is_none
  /\ log # <<>>

\* the model was called and answered with the empty text
EmptyResponse ==
  /\ \E k \in 1..Len(log) :
       log[k].op = "generate_content" /\ log[k].outcome = "ok"
  /\ ~result.is_none
  /\ result.str = <<>>

\* C12: when the model returns no text (an empty response), the request
\* ends as a user-visible failure: an error is reported to the user, and no
\* result table is shown or persisted.
C12_EmptyResponseIsReported ==
  main_pc = "done" /\ EmptyResponse =>
    /\ errors # <<>>
    /\ table_shown = <<>>
    /\ session_results = <<>>
    /\ sheet_rows = <<>>

(***************************************************************************)
(* Properties of analyze_video                                             *)
(***************************************************************************)
Failed(k) == log[k].outcome = "failed"
IsDownload(k) == log[k].op \in {"head", "get"}
IsModelCall(k) == log[k].source = "model"
GenerateCalls == {k \in 1..Len(log) : log[k].op = "generate_content"}
Downloaded == \E k \in 1..Len(log) : log[k].op = "get" /\ ~Failed(k)

\* the generate call is made at most once, and no source is asked twice
AtMostOnce ==
  /\ Cardinality(GenerateCalls) <= 1
  /\ \A j, k \in 1..Len(log) :
       j < k /\ IsDownload(j) /\ log[j].source = log[k].source =>
         log[j].op # log[k].op

\* C13 as stated: nothing is retried within one request: the generate call
\* is made at most once, each media source is attempted at most once, and
\* once a download or the model invocation has failed the request ends with
\* no response and makes no further download or model call.
C13_FailureEndsRequest ==
  /\ AtMostOnce
  /\ \A k \in 1..Len(log) :
       Failed(k) => k = Len(log) /\ (req_pc = "returned" => result.is_none)

\* C13: nothing is retried within one request: the generate call is made at
\* most once and each media source is attempted at most once; a source that
\* failed is followed only by the sources after it, a model call is made only
\* after a download succeeded, a request with no successful download ends
\* with no response, and a failed model call is the last call of the request,
\* which ends with no response.
C13_NoRetryFallThrough ==
  /\ AtMostOnce
  /\ \A j, k \in 1..Len(log) :
       j < k /\ IsDownload(j) /\ Failed(j) => log[k].source # log[j].source
  /\ \A k \in 1..Len(log) :
       IsModelCall(k) =>
         \E j \in 1..(k - 1) : log[j].op = "get" /\ ~Failed(j)
  /\ req_pc = "returned" /\ ~Downloaded => result.is_none
  /\ \A k \in 1..Len(log) :
       IsModelCall(k) /\ Failed(k) =>
         k = Len(log) /\ (req_pc = "returned" => result.is_none)

\* a source failed, a later one delivered the video, the model answered
C13_Witness ==
  /\ req_pc = "returned"
  /\ Len(log) > 1
  /\ Failed(1)
  /\ ~result.is_none
  /\ result.str # <<>>

\* the URL is neither a TikTok, nor an Instagram, nor a direct media link
Unrecognized(url) ==
  /\ ~contains(url, S_tiktok)
  /\ ~contains(url, S_instagram)
  /\ ~contains(url, S_amazonaws)
  /\ ~endswith(url, S_mp4)

\* C14: a URL classified as unrecognized ends the request as a user-visible
\* terminal failure, and no media download and no model invocation is
\* performed for it.
C14_UnrecognizedUrlFails ==
  Unrecognized(video_url) =>
    /\ log = <<>>
    /\ temp_files = {}
    /\ req_pc = "returned" => result.is_none /\ errors # <<>>
    /\ main_pc = "done" =>
         /\ req_pc = "returned"
         /\ table_shown = <<>>
         /\ sheet_rows = <<>>

\* main_async has returned for an unrecognized URL
C14_Witness ==
  /\ Unrecognized(video_url)
  /\ main_pc = "done"
  /\ errors = <<"Failed to analyse video">>

(***************************************************************************)
(* Properties of the worksheet                                             *)
(***************************************************************************)
\* number of request-metadata columns of the header row
MetadataCells == 7

\* C15: every row appended to the spreadsheet has exactly as many cells as
\* the fixed header row (7 request-metadata cells followed by 16 category
\* cells), and its k-th category cell holds the Analysis value of the
\* category named by the k-th category header.
C15_RowMatchesHeaders ==
  /\ Len(headers) = MetadataCells + Len(categories)
  /\ \A n \in 1..Len(sheet_rows) :
       /\ Len(sheet_rows[n]) = Len(headers)
       /\ sheet_rows[n][MetadataCells] = video_url
       /\ \A k \in 1..Len(categories) :
            /\ \E j \in 1..Len(session_results) :
                 session_results[j].Category = headers[MetadataCells + k]
            /\ sheet_rows[n][MetadataCells + k]
                 = Field(session_results, headers[MetadataCells + k])

\* a row with a filled Content Theme cell has been appended
C15_Witness ==
  /\ Len(sheet_rows) = 1
  /\ sheet_rows[1][9] # <<>>
  /\ sheet_rows[1][10] = <<>>

(***************************************************************************)
(* Properties of the prompt templates                                      *)
(***************************************************************************)
\* the heading of the answer, and the category it asks for
AnswerHeading == headings_of(prompt)[heading_no]
AnswerCategory == categories[heading_no]

\* C16: the prompt templates and the parser's heading map are in lock-step:
\* each of the 16 headings requested in the default prompt and in the
\* options prompt contains, case-insensitively, a phrase registered in
\* category_mapping for its category, and a response line that repeats the
\* heading is resolved by the parser to that category.
C16_PromptsMatchHeadingMap ==
  /\ Len(default_prompt_headings) = 16
  /\ Len(options_prompt_headings) = 16
  /\ heading_no # 0 =>
       \E k \in 1..Len(category_mapping) :
          /\ category_mapping[k].category = AnswerCategory
          /\ find_str(lower(AnswerHeading), category_mapping[k].key) # 0
  /\ answer_table # <<>> =>
       /\ ~answer_table[1].raised
       /\ \A i \in 1..Len(categories) :
            Field(answer_table[1].df, categories[i])
              = IF i = heading_no THEN V_answer ELSE <<>>

\* the answer to 'vi) Spoken Words', whose list prefix the parser keeps,
\* has been parsed
C16_Witness ==
  /\ answer_table # <<>>
  /\ heading_no = 7
  /\ Field(answer_table[1].df, "Spoken Words") = V_answer

(***************************************************************************)
(* Lines with the phrases of several categories                            *)
(***************************************************************************)
\* the positions in category_mapping of the phrases the line contains
PhrasesIn(line) ==
  {k \in 1..Len(category_mapping) :
     find_str(lower(line), category_mapping[k].key) # 0}

\* the category of the one that is declared first
FirstDeclared(line) == category_mapping[MinOf(PhrasesIn(line))].category

\* C17: a line that contains the phrases of two or more categories is
\* assigned to the category whose phrase comes first in the declaration
\* order of the heading map, wherever the phrases occur in the line: a line
\* with 'spoken words' and 'language' goes to Spoken Words, one with 'brand
\* safety' and 'brands featured' to Brand Safety.
C17_FirstDeclaredPhraseWins ==
  [][ (pc = "loop" /\ line_no <= Len(lines)
         /\ Cardinality(PhrasesIn(strip(lines[line_no]))) >= 2)
      => LET line == strip(lines[line_no])
         IN  /\ current_category' = FirstDeclared(line)
             /\ {7, 10} \subseteq PhrasesIn(line) =>
                  current_category' = "Spoken Words"
             /\ {13, 14} \subseteq PhrasesIn(line) =>
                  current_category' = "Brand Safety"
    ]_vars

\* 'brands featured, brand safety: y' has been read: the phrase that comes
\* second in the line, and first in the map, is the active category
C17_Witness ==
  /\ pc = "loop"
  /\ lines = <<L_order>>
  /\ line_no = 2
  /\ current_category = "Brand Safety"

(***************************************************************************)
(* The seed of a new buffer                                                *)
(***************************************************************************)
\* the text after the first ':' of the line, trimmed; '' without a ':'
AfterFirstColon(line) ==
  LET at == {i \in 1..Len(line) : line[i] = ":"}
  IN  IF at = {} THEN <<>>
      ELSE strip(SubSeq(line, MinOf(at) + 1, Len(line)))

\* the line is taken as a heading
IsHeadingStep ==
  /\ pc = "loop"
  /\ line_no <= Len(lines)
  /\ PhrasesIn(strip(lines[line_no])) # {}

\* C18: when a line matches a category, the new buffer is seeded with the
\* (trimmed) text after the first ':' of that line, also when that ':' occurs
\* before the heading phrase, and starts empty when the line has no ':'; the
\* text before the first ':' is added to no field: the only cell the step
\* writes is the one of the category that was active, with its old buffer.
C18_SeedIsTextAfterFirstColon ==
  [][ IsHeadingStep
      => LET line == strip(lines[line_no])
         IN  /\ content_buffer' =
                  IF AfterFirstColon(line) = <<>> THEN <<>>
                  ELSE <<AfterFirstColon(line)>>
             /\ \A i \in 1..Len(df) :
                  df'[i] # df[i] =>
                    /\ df[i].Category = current_category
                    /\ df'[i].Analysis = join(content_buffer, <<",", " ">>)
    ]_vars

\* 'note: the Location is x' has been read: its ':' comes before the phrase
C18_Witness ==
  /\ pc = "loop"
  /\ lines = <<L_early>>
  /\ line_no = 2
  /\ current_category = "Location"
  /\ content_buffer = <<AfterFirstColon(L_early)>>
  /\ Len(AfterFirstColon(L_early)) = 17

(***************************************************************************)
(* Category labels inside a field                                          *)
(***************************************************************************)
\* the value contains '<CategoryName>:' for one of the 16 declared names
HasLabel(v) ==
  \E k \in 1..Len(CategoryText) : find_str(v, CategoryText[k] \o <<":">>) # 0

\* the value with the labels of the first k names taken out, name by name
RECURSIVE WithoutLabels(_, _)
WithoutLabels(v, k) ==
  IF k = 0 THEN v
  ELSE replace(WithoutLabels(v, k - 1), CategoryText[k] \o <<":">>)

\* taking the labels out of the value leaves no label, and the value has no
\* bracketed aside whose removal could form one
LabelsAreSeparate(v) ==
  /\ ~HasLabel(WithoutLabels(v, Len(CategoryText)))
  /\ \A i \in 1..Len(v) : v[i] # "["

ListPrefixOf(line) == {p \in ListPrefixes : startswith(line, p)}
\* the line without that prefix
WithoutListPrefix(line) ==
  LET p == CHOOSE q \in ListPrefixOf(line) :
             \A r \in ListPrefixOf(line) : Len(r) <= Len(q)
  IN  strip(SubSeq(line, Len(p) + 1, Len(line)))

\* C20: every line that starts with a roman-numeral token followed by ')'
\* (i through xv) or a single-letter token followed by ')' has that prefix
\* stripped before the line is used, for body lines as for heading lines: a
\* body line 'vi) foo' or 'c) foo' appended to the active category
\* contributes 'foo' and not the prefix.
C20_BodyLinePrefixStripped ==
  [][ (pc = "loop" /\ line_no <= Len(lines)
         /\ current_category # None
         /\ PhrasesIn(strip(lines[line_no])) = {}
         /\ ListPrefixOf(strip(lines[line_no])) # {})
      => content_buffer' =
           Append(content_buffer, WithoutListPrefix(strip(lines[line_no])))
    ]_vars

(***************************************************************************)
(* Which category a line feeds                                             *)
(***************************************************************************)
\* the loop is about to read a non-blank line without a heading phrase
NonHeadingStep ==
  /\ pc = "loop"
  /\ line_no <= Len(lines)
  /\ strip(lines[line_no]) # <<>>
  /\ ~HasPhrase(strip(lines[line_no]))

\* v is what is left of the line after dropping some of its first characters
TailOf(v, line) == \E n \in 0..Len(line) : v = Drop(line, n)

\* the buffer grew by at most one entry, which is a tail of the line read
GrewBy(line) ==
  \/ content_buffer' = content_buffer
  \/ /\ Len(content_buffer') = Len(content_buffer) + 1
     /\ SubSeq(content_buffer', 1, Len(content_buffer)) = content_buffer
     /\ TailOf(content_buffer'[Len(content_buffer')], line)

\* C21: a non-heading line before the first heading contributes to no
\* field: it is not buffered and no cell changes. A non-blank non-heading
\* line after a heading is buffered for the most recently matched category
\* and changes no cell. The buffer is written only to the cell of the
\* category it was collected for, and a heading line starts a buffer that
\* holds at most its own text, so the text of no line reaches two categories.
C21_LineFeedsOnlyActiveCategory ==
  /\ [](pc = "loop" /\ current_category = None => content_buffer = <<>>)
  /\ [][ /\ (NonHeadingStep /\ current_category = None)
             => /\ df' = df
                /\ content_buffer' = <<>>
                /\ current_category' = None
         /\ (NonHeadingStep /\ current_category # None)
             => /\ df' = df
                /\ current_category' = current_category
                /\ GrewBy(strip(lines[line_no]))
         /\ IsHeadingStep
             => /\ Len(content_buffer') <= 1
                /\ \A j \in 1..Len(content_buffer') :
                     TailOf(content_buffer'[j], strip(lines[line_no]))
         /\ pc = "loop"
             => \A i \in 1..Len(df) :
                  df'[i] # df[i] =>
                    /\ df[i].Category = current_category
                    /\ df'[i].Analysis = join(content_buffer, <<",", " ">>)
       ]_vars

\* 'c) foo' came before the heading 'Content Style: Vlog' and the text was
\* parsed to the end: only the text of the heading is stored, in its cell
C21_Witness ==
  /\ pc = "clean"
  /\ lines = <<L_body_c, L_style>>
  /\ \A i \in 1..Len(df) :
       df[i].Analysis =
         IF df[i].Category = "Content Style" THEN <<"V","l","o","g">>
         ELSE <<>>

(***************************************************************************)
(* A category whose heading occurs more than once                          *)
(***************************************************************************)
\* line k of the text is taken as a heading
HeadingAt(k) == strip(lines[k]) # <<>> /\ HasPhrase(strip(lines[k]))

\* the headings of one category
Occurrences(category) ==
  {k \in 1..Len(lines) :
     HeadingAt(k) /\ FirstDeclared(strip(lines[k])) = category}

\* the last line before the next heading
SegmentEnd(k) ==
  LET later == {j \in (k + 1)..Len(lines) : HeadingAt(j)}
  IN  IF later = {} THEN Len(lines) ELSE MinOf(later) - 1

\* what is buffered for the heading of line k: the text after its first
\* ':' and the lines up to the next heading, without the empty entries
BufferOf(k) ==
  LET n       == SegmentEnd(k) - k + 1
      entries == [j \in 1..n |->
                    IF j = 1 THEN AfterFirstColon(strip(lines[k]))
                    ELSE sub_bullet(strip(lines[k + j - 1]))]
  IN  SelectSeq(entries, LAMBDA e : e # <<>>)

\* the content of the last occurrence with a non-empty buffer, '' if none
LastContent(category) ==
  LET full == {k \in Occurrences(category) : BufferOf(k) # <<>>}
  IN  IF full = {} THEN <<>>
      ELSE join(BufferOf(MaxOf(full)), <<",", " ">>)

\* C25: when the heading of one category is matched more than once in a
\* text, the category's field holds only the buffered content of the last
\* occurrence whose buffer was non-empty: a later non-empty flush replaces
\* the earlier content, a later occurrence with an empty buffer leaves it in
\* place. This is the field after the last flush; the returned table holds
\* its post-process cleanup.
C25_LastNonEmptyOccurrenceWins ==
  (pc \in {"clean", "done"} /\ ~raised /\ ~EmptyArg)
  => LET heads == {k \in 1..Len(lines) : HeadingAt(k)}
         cat   == [k \in heads |-> FirstDeclared(strip(lines[k]))]
     IN  \A k \in heads :
            (\E j \in heads \ {k} : cat[j] = cat[k])
            => Field(df, cat[k]) =
                 IF pc = "clean" THEN LastContent(cat[k])
                 ELSE cleanup(LastContent(cat[k]))

\* 'Content Style: Vlog' followed by 'ii) Content Style: Tutorial'
C25_Witness ==
  /\ pc = "clean"
  /\ lines = <<L_style, L_roman>>
  /\ Occurrences("Content Style") = {1, 2}
  /\ Field(df, "Content Style") = <<"T","u","t","o","r","i","a","l">>

(***************************************************************************)
(* try_s3_download: the buckets in turn                                    *)
(***************************************************************************)
\* the position of a bucket in S3_BUCKETS, 0 for another source
BucketNo(source) ==
  IF \E b \in 1..Len(S3_BUCKETS) : S3_BUCKETS[b] = source
    THEN CHOOSE b \in 1..Len(S3_BUCKETS) : S3_BUCKETS[b] = source
    ELSE 0
IsS3Call(k) == BucketNo(log[k].source) # 0
\* the HEAD requests made on buckets, in the order they were made
S3Probes == SelectSeq(log, LAMBDA c : c.op = "head" /\ BucketNo(c.source) # 0)
\* the buckets whose HEAD or GET failed
FailedBuckets ==
  {BucketNo(log[k].source) : k \in {j \in 1..Len(log) : IsS3Call(j) /\ Failed(j)}}
\* try_s3_download was called and has returned None
S3ReturnedNone ==
  /\ bucket # 0
  /\ req_pc \in {"check_path", "returned"}
  /\ video_path = 0
  /\ \A k \in 1..Len(log) : log[k].op = "get" => Failed(k)

\* C22: try_s3_download probes the configured buckets in list order; it
\* stops at the first bucket whose check succeeds and whose download
\* completes; it moves on to the next bucket when a bucket's check fails or
\* raises; it returns no path only when every configured bucket has failed,
\* and the request then reports a failure and never invokes the model.
C22_BucketsInOrderUntilOneDelivers ==
  /\ \A n \in 1..Len(S3Probes) : S3Probes[n].source = S3_BUCKETS[n]
  /\ \A j, k \in 1..Len(log) :
       (j < k /\ IsS3Call(j) /\ log[j].op = "get" /\ ~Failed(j))
       => ~IsS3Call(k)
  /\ \A k \in 1..Len(log) :
       (IsS3Call(k) /\ Failed(k) /\ BucketNo(log[k].source) < Len(S3_BUCKETS))
       => IF k < Len(log)
            THEN log[k + 1] =
                   Call("head", S3_BUCKETS[BucketNo(log[k].source) + 1],
                        log[k + 1].outcome)
            ELSE req_pc = "s3_head" /\ bucket = BucketNo(log[k].source) + 1
  /\ S3ReturnedNone
       => /\ FailedBuckets = 1..Len(S3_BUCKETS)
          /\ \A k \in 1..Len(log) : ~IsModelCall(k)
          /\ req_pc = "returned"
               => /\ result.is_none
                  /\ \E e \in 1..Len(errors) :
                       errors[e] = "Failed to analyse video"

\* the first bucket answered 404, the download from the second broke off,
\* the HEAD on the third raised: the request has ended
C22_Witness ==
  /\ req_pc = "returned"
  /\ S3ReturnedNone
  /\ Len(log) = 4
  /\ log[2] = Call("head", S3_BUCKETS[2], "ok")
  /\ log[3] = Call("get", S3_BUCKETS[2], "failed")
  /\ result.is_none

(***************************************************************************)
(* What comes before the model invocation                                  *)
(***************************************************************************)
\* the step makes the generate call
InvokesModel ==
  /\ Len(log') = Len(log) + 1
  /\ log'[Len(log')].op = "generate_content"

\* the calls made before call k
Before(k) == 1..(k - 1)

\* C23: within a request the model is invoked only after the media has
\* been downloaded to a local file and the uploaded file has left the
\* PROCESSING state in a state other than FAILED; it is never invoked when
\* the download returned no file or the upload ended FAILED.
C23_ModelOnlyAfterDownloadAndUpload ==
  /\ [][ InvokesModel
         => /\ video_path # 0
            /\ video_path \in temp_files
            /\ file_state \notin {None, "PROCESSING", "FAILED"}
       ]_vars
  /\ [](\A k \in GenerateCalls :
          /\ \E j \in Before(k) : log[j].op = "get" /\ ~Failed(j)
          /\ \E j \in Before(k) : log[j].op = "upload_file" /\ ~Failed(j)
          /\ \A j \in Before(k) : IsModelCall(j) => ~Failed(j))
  /\ []((video_path = 0 \/ file_state = "FAILED") => GenerateCalls = {})

\* the uploaded file was PROCESSING, a poll found it ACTIVE, the model
\* answered
C23_Witness ==
  /\ req_pc = "returned"
  /\ GenerateCalls # {}
  /\ polls = 1
  /\ file_state = "ACTIVE"
  /\ ~result.is_none

(***************************************************************************)
(* The animation task during the request                                   *)
(***************************************************************************)
\* analyze_video is at a media download or at the model invocation
AtIOBoundary ==
  /\ main_pc = "analyzing"
  /\ \/ req_pc \in {"s3_head", "s3_get", "direct_head", "direct_get"}
     \/ req_pc = "processing" /\ file_state = "ACTIVE"

\* C24: the main request task suspends at each I/O boundary (media download
\* and model invocation), so the progress-indicator task gets to run during
\* those steps and advances the displayed percentage toward the target most
\* recently written by the main task: at a download or at the model
\* invocation, with the percentage below the target, a turn of the animation
\* loop can be taken.
C24_AnimationRunsAtIOBoundaries ==
  (AtIOBoundary /\ animation_task = "pending"
     /\ current_progress < target_progress
     /\ current_progress < MaxProgress)
  => ENABLED Animate

(***************************************************************************)
(* The prompt of the selected prompting style                              *)
(***************************************************************************)
\* analyze_video has chosen its prompt
PromptChosen == main_pc # "idle" /\ prompt # None

\* C26: when the user selects the prompting style 'With Options',
\* get_analysis_prompt returns the option-filled prompt built by
\* PromptBuilder.build_prompt (falling back to the default prompt only when
\* building fails, which is reported), and it returns the default prompt
\* when 'Without Options' is selected.
C26_StyleSelectsPrompt ==
  PromptChosen
  => /\ prompt_style = "With Options"
          => \/ prompt = "options"
             \/ /\ prompt = "default"
                /\ \E e \in 1..Len(errors) :
                     errors[e] = "Failed to build prompt with options"
     /\ prompt_style = "Without Options" => prompt = "default"

(***************************************************************************)
(* The targets written by update_target                                    *)
(***************************************************************************)
\* C27: within one request the target percentage written by the main task
\* through update_target never decreases from one write to the next, on
\* every path through analyze_video (TikTok, Instagram and direct media).
C27_TargetNeverDecreases ==
  [][req_pc # "idle" => target_progress' >= target_progress]_vars

(***************************************************************************)
(* The end of the animation loop and of main_async                         *)
(***************************************************************************)
\* stop() has been called on the progress manager of the task
Stopped == TaskCreated /\ ~is_running

\* main_async is past 'await animation_task' (line 1150)
PastAwait ==
  /\ main_pc \in {"await_animation", "done"}
  /\ animation_task = "done"

====
